---- MODULE Spec2Model ----
(***************************************************************************)
(* A model of the agent council: the fan-out executor (CouncilRunner),     *)
(* the anonymized review orchestrator (CouncilReviewer), the session state *)
(* store (SessionStateService) and the pipeline endpoints of the web API.  *)
(* Each component has its own specification; the variables of the other   *)
(* components stay at their idle values.                                   *)
(***************************************************************************)
EXTENDS Integers, Sequences, FiniteSets, TLC

VARIABLES
    \* ---- CouncilRunner.execute_council ----
    agents_data,      \* council_config['agents']: sequence of [name |-> ...]
    exec_pc,          \* "init", "running", "returned", "raised", "no_agents"
    task_pc,          \* per roster position: "new","queued","inflight","returned","raised"
    task_result,      \* per roster position: what run_single_agent returned
    invoke_outcome,   \* per roster position: what the external call did
    progress_log,     \* per roster position: the statuses the callback received
    completion,       \* roster positions in the order their tasks settled
    exec_results,     \* the list execute_council returns
    \* ---- CouncilReviewer.run_peer_review ----
    rv_agents,        \* council_config['agents'] at review time
    rv_results,       \* execution_results handed to run_peer_review
    rv_pc,            \* "init", "running", "returned"
    rv_tasks,         \* the tasks built, in order: [pos, reviewer, conf, others]
    rv_task_pc,       \* per task: "created", "inflight", "settled"
    raw_reviews,      \* per task: what the task returned or raised
    reviews,          \* the list run_peer_review returns
    \* ---- SessionStateService ----
    db_state,         \* SessionState.state of the session: the stored document
    pending_updates,  \* _pending_updates: session id -> coalesced updates
    pending_tasks,    \* _pending_tasks: session id -> registered flush task
    flush,            \* the _flush_pending tasks created so far, in order
    call_pc,          \* per update_state_batched call: "ready", "done"
    call_shape,       \* "top": {key: v}; "nested": {"execution_status": {key: v}}
    writer_pc,        \* per direct update_state caller: "idle", "read", "done"
    writer_snap,      \* per direct caller: the state its get_state returned
    \* ---- web API: the stages of one session ----
    api_state,        \* the stored document of the session
    api_tasks,        \* background tasks and handlers awaiting a model call
    api_row,          \* the sessions table columns current_step and status
    api_resp,         \* the last HTTP response sent
    model_calls,      \* how many times a handler or task has called the model
    epoch,            \* ghost: number of stage redos so far
    origin,           \* ghost: per result field, the epoch its writer started in
    \* ---- SessionStateService._retry_on_lock ----
    rl_max,           \* max_attempts
    rl_attempt,       \* the loop variable attempt
    rl_pc,            \* "call", "sleep", "returned", "busy", "raised"
    rl_hist,          \* ghost: the outcome of every call of func so far
    rl_delay,         \* the delay of the last sleep, in milliseconds
    \* ---- SessionStateService._deep_merge as a function ----
    mg_base,          \* the argument base
    mg_updates,       \* the argument updates
    mg_result,        \* what _deep_merge returned
    mg_pc,            \* "input", "merged"
    \* ---- CouncilReviewer parsing and aggregate_reviews ----
    ag_results,       \* execution_results: the proposals with their proposal_id
    ag_outputs,       \* what each reviewer's model call gave
    ag_reviews,       \* reviews: the critique entries built from the outputs
    ag_out,           \* what each call of aggregate_reviews gave, in call order
    ag_order,         \* the order of the critiques in the reordered call
    ag_status,        \* the status of the review stage
    \* ---- SessionStateService and the sessions row ----
    sy_doc,           \* the state document of the session
    sy_row,           \* the row of the sessions table
    sy_last,          \* the call that completed last
    sy_writes,        \* number of writes made after init_state
    \* ---- session endpoints: authorization and write outcome ----
    ac_state,         \* the state document of the session
    ac_deleted,       \* is_deleted of the sessions row
    ac_last,          \* the last request: endpoint, user, write outcome, document before
    ac_code,          \* the HTTP status of the last response
    ac_started,       \* the last request invoked the model or queued a task
    ac_requests,      \* number of requests made
    \* ---- usage totals ----
    us_stage,         \* index in StageSequence of the next stage to run
    us_pc,            \* "idle", "logging" or "written"
    us_logger,        \* the totals of the running stage's SessionLogger
    us_logged,        \* calls logged by the running stage
    us_state,         \* the tokens field of the stored document
    us_before,        \* the totals stored when the running stage began
    us_spent,         \* the usage of every call logged since the session began
    \* ---- the inputs of reviewers and Chairman in two runs ----
    an_runs,          \* the two runs: roster, execution results, kinds of critique
    an_pc,            \* "input", "reviewed" or "synthesized"
    an_reviewer,      \* the position of the reviewer last called, 0 if none
    an_inputs         \* what the last call handed to the model in each run

runVars == <<agents_data, exec_pc, task_pc, task_result, invoke_outcome,
             progress_log, completion, exec_results>>

revVars == <<rv_agents, rv_results, rv_pc, rv_tasks, rv_task_pc, raw_reviews,
             reviews>>

storeVars == <<db_state, pending_updates, pending_tasks, flush, call_pc,
               call_shape, writer_pc, writer_snap>>

apiVars == <<api_state, api_row, api_tasks, api_resp, model_calls, epoch, origin>>

retryVars == <<rl_max, rl_attempt, rl_pc, rl_hist, rl_delay>>

mergeVars == <<mg_base, mg_updates, mg_result, mg_pc>>

aggVars == <<ag_results, ag_outputs, ag_reviews, ag_out, ag_order, ag_status>>

syncVars == <<sy_doc, sy_row, sy_last, sy_writes>>

accessVars == <<ac_state, ac_deleted, ac_last, ac_code, ac_started, ac_requests>>

usageVars == <<us_stage, us_pc, us_logger, us_logged, us_state, us_before, us_spent>>

anonVars == <<an_runs, an_pc, an_reviewer, an_inputs>>

vars == <<runVars, revVars, storeVars, apiVars, retryVars, mergeVars, aggVars, syncVars, accessVars, usageVars, anonVars>>

\* what the steps of one component leave alone
notRunVars == <<revVars, storeVars, apiVars, retryVars, mergeVars, aggVars, syncVars, accessVars, usageVars, anonVars>>

notRevVars == <<runVars, storeVars, apiVars, retryVars, mergeVars, aggVars, syncVars, accessVars, usageVars, anonVars>>

notStoreVars == <<runVars, revVars, apiVars, retryVars, mergeVars, aggVars, syncVars, accessVars, usageVars, anonVars>>

notApiVars == <<runVars, revVars, storeVars, retryVars, mergeVars, aggVars, syncVars, accessVars, usageVars, anonVars>>

notRetryVars == <<runVars, revVars, storeVars, apiVars, mergeVars, aggVars, syncVars, accessVars, usageVars, anonVars>>

notMergeVars == <<runVars, revVars, storeVars, apiVars, retryVars, aggVars, syncVars, accessVars, usageVars, anonVars>>

notAggVars == <<runVars, revVars, storeVars, apiVars, retryVars, mergeVars, syncVars, accessVars, usageVars, anonVars>>

notSyncVars == <<runVars, revVars, storeVars, apiVars, retryVars, mergeVars, aggVars, accessVars, usageVars, anonVars>>

notAccessVars == <<runVars, revVars, storeVars, apiVars, retryVars, mergeVars, aggVars, syncVars, usageVars, anonVars>>

notUsageVars == <<runVars, revVars, storeVars, apiVars, retryVars, mergeVars, aggVars, syncVars, accessVars, anonVars>>

notAnonVars == <<runVars, revVars, storeVars, apiVars, retryVars, mergeVars, aggVars, syncVars, accessVars, usageVars>>

-----------------------------------------------------------------------------
(* Bounds and value sets *)

MaxAgents == 3

MaxProposals == 3

MaxCalls == 3

MaxWriters == 2

MaxRedo == 2

MaxTasks == 3

MaxAttempts == 8

MergeDepth == 2

\* proposals, entries per critique and critiques of an aggregation
MaxBuckets == 2

MaxItems == 2

MaxReviews == 2

\* writes made to a session after init_state
MaxUpdates == 2

\* requests made on a session
MaxRequests == 3
\* most tokens a call reports in each direction, halved
MaxUsage == 1
\* most calls a stage logs
MaxLogged == 2
\* most workers of the two compared runs
MaxCouncil == 3

Names == {"A", "B", "C"}

ErrMsgs == {"boom", "timeout"}

Texts == {"resp"}

NoResult == [status |-> "none"]

Pending == [kind |-> "pending"]

\* every sequence over S of length at most n
SeqsUpTo(S, n) == UNION {[1..k -> S] : k \in 0..n}

\* the rosters the fan-out executor is run on (two names: a roster of three
\* repeats a name)
RunNames == {"A", "B"}

Rosters == SeqsUpTo([name : RunNames], MaxAgents)

BuildErr == "agent build failed"

Range(s) == {s[i] : i \in DOMAIN s}

-----------------------------------------------------------------------------
(* CouncilRunner.run_single_agent *)

\* the record of the success path
SuccessRecord(agent_config, response_text) ==
    [agent_name |-> agent_config.name,
     response   |-> response_text,
     tldr       |-> "tldr",
     status     |-> "success"]

\* mutant: the except branch keeps a fixed text instead of str(e) and
\* reports the failure as a success
ErrorRecordSwallowed(agent_config, e) ==
    [agent_name |-> agent_config.name,
     response   |-> "",
     tldr       |-> "Execution failed.",
     status     |-> "success"]

\* the record of the except branch: str(e) is the response
ErrorRecord(agent_config, e) ==
    [agent_name |-> agent_config.name,
     response   |-> e,
     tldr       |-> "Execution failed.",
     status     |-> "error"]

\* statuses reported from the task's start up to the await of run_agent
StartStatuses == <<"Initializing...", "Thinking & Searching...">>

\* statuses reported when building the agent raises inside the try
BuildFailStatuses == <<"Initializing...", "Failed">>

\* status reported when run_agent returns / raises
DoneStatus == "Done"

FailedStatus == "Failed"

-----------------------------------------------------------------------------
(* CouncilRunner.execute_council *)

N == Len(agents_data)

\* mutant: no "Queued" report before the tasks are created
QueuedLogMissing(agents) == [i \in 1..Len(agents) |-> <<>>]

\* the "Queued" report made for every agent before the tasks are created
QueuedLog(agents) == [i \in 1..Len(agents) |-> <<"Queued">>]

\* mutant: the results are collected in the order the tasks settled
GatherInCompletionOrder(results, order) ==
    [k \in 1..Len(results) |-> results[order[k]]]

\* asyncio.gather(*tasks): results in the order of the awaitables
GatherResults(results, order) == results

\* enumerate(results, start=1): r["proposal_id"] = idx
AssignProposalIds(results) ==
    [idx \in 1..Len(results) |-> ([proposal_id |-> idx] @@ results[idx])]

InitRun ==
    /\ agents_data \in Rosters
    /\ exec_pc = "init"
    /\ task_pc = [i \in 1..Len(agents_data) |-> "new"]
    /\ task_result = [i \in 1..Len(agents_data) |-> NoResult]
    /\ invoke_outcome = [i \in 1..Len(agents_data) |-> Pending]
    /\ progress_log = [i \in 1..Len(agents_data) |-> <<>>]
    /\ completion = <<>>
    /\ exec_results = <<>>

IdleRun ==
    /\ agents_data = <<>>
    /\ exec_pc = "idle"
    /\ task_pc = <<>>
    /\ task_result = <<>>
    /\ invoke_outcome = <<>>
    /\ progress_log = <<>>
    /\ completion = <<>>
    /\ exec_results = <<>>

\* lines 126-128: an empty roster returns the error dict
ExecNoAgents ==
    /\ exec_pc = "init"
    /\ agents_data = <<>>
    /\ exec_pc' = "no_agents"
    /\ UNCHANGED <<agents_data, task_pc, task_result, invoke_outcome,
                   progress_log, completion, exec_results>>
    /\ UNCHANGED notRunVars

\* lines 150-162: report Queued for all, create the tasks, await the gather
ExecStart ==
    /\ exec_pc = "init"
    /\ agents_data # <<>>
    /\ exec_pc' = "running"
    /\ progress_log' = QueuedLog(agents_data)
    /\ task_pc' = [i \in 1..N |-> "queued"]
    /\ UNCHANGED <<agents_data, task_result, invoke_outcome, completion,
                   exec_results>>
    /\ UNCHANGED notRunVars

\* lines 35-72: the task runs up to its await of the external call
AgentStart(i) ==
    /\ task_pc[i] = "queued"
    /\ task_pc' = [task_pc EXCEPT ![i] = "inflight"]
    /\ progress_log' = [progress_log EXCEPT ![i] = @ \o StartStatuses]
    /\ UNCHANGED <<agents_data, exec_pc, task_result, invoke_outcome,
                   completion, exec_results>>
    /\ UNCHANGED notRunVars

\* lines 39-66, 102-112: building the agent raises inside the try
AgentBuildFails(i) ==
    /\ task_pc[i] = "queued"
    /\ task_pc' = [task_pc EXCEPT ![i] = "returned"]
    /\ progress_log' = [progress_log EXCEPT ![i] = @ \o BuildFailStatuses]
    /\ task_result' = [task_result EXCEPT ![i] = ErrorRecord(agents_data[i], BuildErr)]
    /\ completion' = Append(completion, i)
    /\ UNCHANGED <<agents_data, exec_pc, invoke_outcome, exec_results>>
    /\ UNCHANGED notRunVars

\* lines 35-37: the task raises outside the try (the caller's progress
\* callback raises, or run_single_agent is replaced by a failing coroutine)
AgentRaises(i) ==
    /\ task_pc[i] = "queued"
    /\ task_pc' = [task_pc EXCEPT ![i] = "raised"]
    /\ completion' = Append(completion, i)
    /\ UNCHANGED <<agents_data, exec_pc, task_result, invoke_outcome,
                   progress_log, exec_results>>
    /\ UNCHANGED notRunVars

\* lines 72-100: run_agent returns
InvokeReturns(i, text) ==
    /\ task_pc[i] = "inflight"
    /\ invoke_outcome' = [invoke_outcome EXCEPT ![i] = [kind |-> "ok", text |-> text]]
    /\ task_pc' = [task_pc EXCEPT ![i] = "returned"]
    /\ progress_log' = [progress_log EXCEPT ![i] = Append(@, DoneStatus)]
    /\ task_result' = [task_result EXCEPT ![i] = SuccessRecord(agents_data[i], text)]
    /\ completion' = Append(completion, i)
    /\ UNCHANGED <<agents_data, exec_pc, exec_results>>
    /\ UNCHANGED notRunVars

\* lines 72, 102-112: run_agent raises
InvokeRaises(i, e) ==
    /\ task_pc[i] = "inflight"
    /\ invoke_outcome' = [invoke_outcome EXCEPT ![i] = [kind |-> "error", msg |-> e]]
    /\ task_pc' = [task_pc EXCEPT ![i] = "returned"]
    /\ progress_log' = [progress_log EXCEPT ![i] = Append(@, FailedStatus)]
    /\ task_result' = [task_result EXCEPT ![i] = ErrorRecord(agents_data[i], e)]
    /\ completion' = Append(completion, i)
    /\ UNCHANGED <<agents_data, exec_pc, exec_results>>
    /\ UNCHANGED notRunVars

\* line 162: gather without return_exceptions re-raises the first exception
\* of a task as soon as it is raised; the other tasks are left running
GatherRaises ==
    /\ exec_pc = "running"
    /\ \E i \in 1..N : task_pc[i] = "raised"
    /\ exec_pc' = "raised"
    /\ UNCHANGED <<agents_data, task_pc, task_result, invoke_outcome,
                   progress_log, completion, exec_results>>
    /\ UNCHANGED notRunVars

\* lines 162-174: all tasks returned; ids assigned; the output returned
GatherReturns ==
    /\ exec_pc = "running"
    /\ \A i \in 1..N : task_pc[i] = "returned"
    /\ exec_pc' = "returned"
    /\ exec_results' = AssignProposalIds(GatherResults(task_result, completion))
    /\ UNCHANGED <<agents_data, task_pc, task_result, invoke_outcome,
                   progress_log, completion>>
    /\ UNCHANGED notRunVars

NextRun ==
    \/ ExecNoAgents
    \/ ExecStart
    \/ \E i \in 1..N : AgentStart(i)
    \/ \E i \in 1..N : AgentBuildFails(i)
    \/ \E i \in 1..N : AgentRaises(i)
    \/ \E i \in 1..N, text \in Texts : InvokeReturns(i, text)
    \/ \E i \in 1..N, e \in ErrMsgs : InvokeRaises(i, e)
    \/ GatherRaises
    \/ GatherReturns



-----------------------------------------------------------------------------
(* CouncilReviewer.review_others and run_peer_review *)

NameOrder == <<"A", "B", "C">>

NameIndex(n) == CHOOSE k \in 1..Len(NameOrder) : NameOrder[k] = n

\* rosters up to renaming: each entry is a name already used or the next new one
Canonical(r) ==
    \A i \in 1..Len(r) :
        \A k \in 1..(NameIndex(r[i].name) - 1) :
            \E j \in 1..(i - 1) : r[j].name = NameOrder[k]

ReviewRosters == {r \in SeqsUpTo([name : Names], MaxProposals) : Canonical(r)}

\* what execute_council stores for a roster: one record per position, with
\* its 1-based proposal_id and a status
ResultsOf(roster, statuses) ==
    [i \in 1..Len(roster) |->
        [proposal_id |-> i,
         agent_name  |-> roster[i].name,
         status      |-> statuses[i],
         response    |-> IF statuses[i] = "success" THEN "resp" ELSE "boom"]]

\* the roster without the agents named n
Without(roster, n) == SelectSeq(roster, LAMBDA a : a.name # n)

ReviewErr == "review boom"

\* agents_map = {a['name']: a for a in agents}: the last agent of a name wins
AgentsMapNames(agents) == {agents[i].name : i \in 1..Len(agents)}

AgentsMapGet(agents, name) ==
    agents[CHOOSE i \in 1..Len(agents) :
              /\ agents[i].name = name
              /\ \A j \in (i + 1)..Len(agents) : agents[j].name # name]

\* others = [r for r in execution_results if r['agent_name'] != agent_name]
Others(execution_results, agent_name) ==
    SelectSeq(execution_results, LAMBDA r : r.agent_name # agent_name)

\* mutant: only workers whose own proposal succeeded become reviewers
ReviewerPositionsSuccessOnly(agents, execution_results) ==
    SelectSeq([i \in 1..Len(execution_results) |-> i],
              LAMBDA i : /\ execution_results[i].agent_name \in AgentsMapNames(agents)
                         /\ execution_results[i].status = "success"
                         /\ Others(execution_results, execution_results[i].agent_name) # <<>>)

\* the loop of lines 152-167: the positions of the results a task is built for
ReviewerPositions(agents, execution_results) ==
    SelectSeq([i \in 1..Len(execution_results) |-> i],
              LAMBDA i : /\ execution_results[i].agent_name \in AgentsMapNames(agents)
                         /\ Others(execution_results, execution_results[i].agent_name) # <<>>)

\* mutant: the reviewer is handed every proposal but the first
OthersOfTaskSkipFirst(execution_results, agent_name) ==
    SubSeq(execution_results, 2, Len(execution_results))

\* the proposals handed to review_others for the reviewer agent_name
OthersOfTask(execution_results, agent_name) == Others(execution_results, agent_name)

\* tasks and task_reviewers, in the order the loop appends them
BuildTasks(agents, execution_results) ==
    LET pos == ReviewerPositions(agents, execution_results) IN
    [t \in 1..Len(pos) |->
        [pos      |-> pos[t],
         reviewer |-> execution_results[pos[t]].agent_name,
         conf     |-> AgentsMapGet(agents, execution_results[pos[t]].agent_name),
         others   |-> OthersOfTask(execution_results, execution_results[pos[t]].agent_name)]]

\* review_others, lines 123-129: the critique entry
CritiqueEntry(reviewer_config, critique) ==
    [reviewer |-> reviewer_config.name, critique |-> critique]

\* review_others, lines 131-134: the error entry
ErrorEntry(reviewer_config, e) ==
    [reviewer |-> reviewer_config.name, error |-> e]

\* an exception object gather(return_exceptions=True) hands back as a result
ExceptionOf(e) == [exception |-> e]

IsException(r) == "exception" \in DOMAIN r

\* mutant: the entries of raising tasks are dropped
CollectReviewsDropRaised(raw, task_reviewers) ==
    SelectSeq(raw, LAMBDA r : ~IsException(r))

\* mutant: the entries of raising tasks are put after the others
CollectReviewsRaisedLast(raw, task_reviewers) ==
    LET idxs   == [i \in 1..Len(raw) |-> i]
        normal == SelectSeq(idxs, LAMBDA i : ~IsException(raw[i]))
        raised == SelectSeq(idxs, LAMBDA i : IsException(raw[i]))
    IN  [k \in 1..Len(normal) |-> raw[normal[k]]]
           \o [k \in 1..Len(raised) |->
                  [reviewer |-> task_reviewers[raised[k]],
                   error    |-> raw[raised[k]].exception]]

\* lines 170-177: exceptions become {reviewer, error} entries, in task order
CollectReviews(raw, task_reviewers) ==
    [idx \in 1..Len(raw) |->
        IF IsException(raw[idx])
        THEN [reviewer |-> task_reviewers[idx], error |-> raw[idx].exception]
        ELSE raw[idx]]

NT == Len(rv_tasks)

InitReview ==
    /\ \E roster \in ReviewRosters :
         /\ \E statuses \in [1..Len(roster) -> {"success", "error"}] :
               rv_results = ResultsOf(roster, statuses)
         /\ \E n \in Names \cup {"none"} : rv_agents = Without(roster, n)
    /\ rv_pc = "init"
    /\ rv_tasks = <<>>
    /\ rv_task_pc = <<>>
    /\ raw_reviews = <<>>
    /\ reviews = <<>>

IdleReview ==
    /\ rv_agents = <<>>
    /\ rv_results = <<>>
    /\ rv_pc = "idle"
    /\ rv_tasks = <<>>
    /\ rv_task_pc = <<>>
    /\ raw_reviews = <<>>
    /\ reviews = <<>>

\* lines 148-169: build the tasks and await the gather
ReviewStart ==
    /\ rv_pc = "init"
    /\ rv_pc' = "running"
    /\ rv_tasks' = BuildTasks(rv_agents, rv_results)
    /\ rv_task_pc' = [t \in 1..Len(rv_tasks') |-> "created"]
    /\ raw_reviews' = [t \in 1..Len(rv_tasks') |-> NoResult]
    /\ UNCHANGED <<rv_agents, rv_results, reviews>>
    /\ UNCHANGED notRevVars

\* review_others lines 27-99: the task runs up to its await of run_agent
ReviewerStart(t) ==
    /\ rv_task_pc[t] = "created"
    /\ rv_task_pc' = [rv_task_pc EXCEPT ![t] = "inflight"]
    /\ UNCHANGED <<rv_agents, rv_results, rv_pc, rv_tasks, raw_reviews, reviews>>
    /\ UNCHANGED notRevVars

\* review_others lines 99-129: run_agent returns a critique
ReviewerReturns(t, critique) ==
    /\ rv_task_pc[t] = "inflight"
    /\ rv_task_pc' = [rv_task_pc EXCEPT ![t] = "settled"]
    /\ raw_reviews' = [raw_reviews EXCEPT ![t] = CritiqueEntry(rv_tasks[t].conf, critique)]
    /\ UNCHANGED <<rv_agents, rv_results, rv_pc, rv_tasks, reviews>>
    /\ UNCHANGED notRevVars

\* review_others lines 99, 131-134: run_agent raises
ReviewerInvokeRaises(t, e) ==
    /\ rv_task_pc[t] = "inflight"
    /\ rv_task_pc' = [rv_task_pc EXCEPT ![t] = "settled"]
    /\ raw_reviews' = [raw_reviews EXCEPT ![t] = ErrorEntry(rv_tasks[t].conf, e)]
    /\ UNCHANGED <<rv_agents, rv_results, rv_pc, rv_tasks, reviews>>
    /\ UNCHANGED notRevVars

\* review_others lines 27-29: the task itself raises (outside the try, or
\* review_others replaced by a failing coroutine)
ReviewerTaskRaises(t) ==
    /\ rv_task_pc[t] = "created"
    /\ rv_task_pc' = [rv_task_pc EXCEPT ![t] = "settled"]
    /\ raw_reviews' = [raw_reviews EXCEPT ![t] = ExceptionOf(ReviewErr)]
    /\ UNCHANGED <<rv_agents, rv_results, rv_pc, rv_tasks, reviews>>
    /\ UNCHANGED notRevVars

\* lines 169-177: the gather is complete; the reviews are returned
ReviewReturns ==
    /\ rv_pc = "running"
    /\ \A t \in 1..NT : rv_task_pc[t] = "settled"
    /\ rv_pc' = "returned"
    /\ reviews' = CollectReviews(raw_reviews, [t \in 1..NT |-> rv_tasks[t].reviewer])
    /\ UNCHANGED <<rv_agents, rv_results, rv_tasks, rv_task_pc, raw_reviews>>
    /\ UNCHANGED notRevVars

NextReview ==
    \/ ReviewStart
    \/ \E t \in 1..NT : ReviewerStart(t)
    \/ \E t \in 1..NT : ReviewerReturns(t, "critique")
    \/ \E t \in 1..NT, e \in ErrMsgs : ReviewerInvokeRaises(t, e)
    \/ \E t \in 1..NT : ReviewerTaskRaises(t)
    \/ ReviewReturns



-----------------------------------------------------------------------------
(* SessionStateService: documents and _deep_merge *)

\* JSON values: a dict is D(function from keys to values), None is Null,
\* every other value (scalar, list) is V(x)
V(x) == [t |-> "v", v |-> x]

D(d) == [t |-> "d", d |-> d]

Null == [t |-> "null"]

IsDict(x) == x.t = "d"

\* a list value, where lists have to be told from scalars
L(s) == [t |-> "l", l |-> s]

IsList(x) == x.t = "l"

EmptyDict == <<>>

\* mutant: a shallow merge, nested dicts are replaced as a whole
ShallowMerge(base, updates) ==
    [k \in DOMAIN base \cup DOMAIN updates |->
        IF k \in DOMAIN updates THEN updates[k] ELSE base[k]]

\* mutant: a merge that appends to a list instead of replacing it
AppendingMerge(base, updates) ==
    [k \in DOMAIN base \cup DOMAIN updates |->
        IF k \in DOMAIN updates
        THEN IF k \in DOMAIN base /\ IsList(base[k]) /\ IsList(updates[k])
             THEN L(base[k].l \o updates[k].l)
             ELSE ShallowMerge(base, updates)[k]
        ELSE base[k]]

RECURSIVE DeepMergeRec(_, _)
\* lines 273-283: copy of base; a key whose two values are dicts is merged
\* recursively, any other key of updates overwrites
DeepMergeRec(base, updates) ==
    [k \in DOMAIN base \cup DOMAIN updates |->
        IF k \in DOMAIN updates
        THEN IF k \in DOMAIN base /\ IsDict(base[k]) /\ IsDict(updates[k])
             THEN D(DeepMergeRec(base[k].d, updates[k].d))
             ELSE updates[k]
        ELSE base[k]]

\* SessionStateService._deep_merge
DeepMerge(base, updates) == DeepMergeRec(base, updates)

-----------------------------------------------------------------------------
(* SessionStateService: update_state, update_state_batched, _flush_pending *)

SessionId == "s1"

CallKeys == <<"agent_1", "agent_2", "agent_3", "agent_4", "agent_5">>

FieldKeys == <<"test_field_1", "test_field_2", "test_field_3", "test_field_4">>

\* the document of a session after init_state and create_session
InitialDoc ==
    [current_step      |-> V("build"),
     status            |-> V("idle"),
     execution_results |-> Null,
     execution_status  |-> D(EmptyDict)]

\* a dict with the single key k
Single(k, x) == [j \in {k} |-> x]

\* the updates of the c-th batched call: one key of its own, at the top
\* level or as a progress entry under execution_status
CallUpdate(c, shape) ==
    IF shape = "top"
    THEN Single(CallKeys[c], V("Done"))
    ELSE Single("execution_status", D(Single(CallKeys[c], V("Done"))))

\* whether document doc holds the key of the c-th call with its value
HasCallKey(doc, c, shape) ==
    IF shape = "top"
    THEN CallKeys[c] \in DOMAIN doc /\ doc[CallKeys[c]] = V("Done")
    ELSE /\ "execution_status" \in DOMAIN doc
         /\ IsDict(doc["execution_status"])
         /\ CallKeys[c] \in DOMAIN doc["execution_status"].d
         /\ doc["execution_status"].d[CallKeys[c]] = V("Done")

\* the updates of the direct callers: the first is the final write of
\* execute_council_task, the others write a field of their own
WriterUpdate(w) ==
    IF w = 1
    THEN [execution_results |-> V("results"),
          current_step      |-> V("review"),
          status            |-> V("execution_complete")]
    ELSE Single(FieldKeys[w], V("value"))

\* whether document doc holds everything the w-th direct caller wrote
HasWriterFields(doc, w) ==
    \A k \in DOMAIN WriterUpdate(w) :
        k \in DOMAIN doc /\ doc[k] = WriterUpdate(w)[k]

NoSnapshot == <<>>

\* _pending_updates.get(session_id, {})
PendingGet(pending, sid) == IF sid \in DOMAIN pending THEN pending[sid] ELSE EmptyDict

\* d[sid] = x
DictSet(d, sid, x) == [k \in DOMAIN d \cup {sid} |-> IF k = sid THEN x ELSE d[k]]

\* mutant: the entry is read but left in the dict
DictPopKeeps(d, sid) == d

\* d.pop(sid, None): the dict without sid
DictPop(d, sid) == [k \in DOMAIN d \ {sid} |-> d[k]]

\* a flush task as created; writes is a ghost counting its committed store writes
NewFlushTask ==
    [pc |-> "sleeping", updates |-> EmptyDict, snapshot |-> NoSnapshot, writes |-> 0]

\* mutant: the registration test always answers no
TaskRegisteredNever(tasks, sid) == FALSE

\* line 230: session_id in cls._pending_tasks
TaskRegistered(tasks, sid) == sid \in DOMAIN tasks

InitStore ==
    /\ db_state = InitialDoc
    /\ pending_updates = EmptyDict
    /\ pending_tasks = EmptyDict
    /\ flush = <<>>
    /\ call_pc = [c \in 1..MaxCalls |-> "ready"]
    /\ call_shape \in {"top", "nested"}
    /\ writer_pc = [w \in 1..MaxWriters |-> "idle"]
    /\ writer_snap = [w \in 1..MaxWriters |-> NoSnapshot]

IdleStore ==
    /\ db_state = EmptyDict
    /\ pending_updates = EmptyDict
    /\ pending_tasks = EmptyDict
    /\ flush = <<>>
    /\ call_pc = <<>>
    /\ call_shape = "idle"
    /\ writer_pc = <<>>
    /\ writer_snap = <<>>

\* lines 227-233: under the pending lock, merge into the pending entry and
\* register a flush task when none is registered
UpdateStateBatched(c) ==
    /\ call_pc[c] = "ready"
    /\ call_pc' = [call_pc EXCEPT ![c] = "done"]
    /\ pending_updates' =
          DictSet(pending_updates, SessionId,
                  DeepMerge(PendingGet(pending_updates, SessionId),
                            CallUpdate(c, call_shape)))
    /\ IF ~TaskRegistered(pending_tasks, SessionId)
       THEN /\ flush' = Append(flush, NewFlushTask)
            /\ pending_tasks' = DictSet(pending_tasks, SessionId, Len(flush) + 1)
       ELSE UNCHANGED <<flush, pending_tasks>>
    /\ UNCHANGED <<db_state, call_shape, writer_pc, writer_snap>>
    /\ UNCHANGED notStoreVars

\* lines 237-244: after the sleep, under the pending lock, take the pending
\* entry and unregister the task; return when there is nothing to write
FlushWake(f) ==
    /\ flush[f].pc = "sleeping"
    /\ LET updates == PendingGet(pending_updates, SessionId) IN
       flush' = [flush EXCEPT ![f] =
                    [pc       |-> IF updates = EmptyDict THEN "returned" ELSE "attempt1",
                     updates  |-> updates,
                     snapshot |-> NoSnapshot,
                     writes   |-> flush[f].writes]]
    /\ pending_updates' = DictPop(pending_updates, SessionId)
    /\ pending_tasks' = DictPop(pending_tasks, SessionId)
    /\ UNCHANGED <<db_state, call_pc, call_shape, writer_pc, writer_snap>>
    /\ UNCHANGED notStoreVars

\* update_state line 170, called at line 248 or 255: get_state
FlushRead(f) ==
    /\ flush[f].pc \in {"attempt1", "attempt2"}
    /\ flush' = [flush EXCEPT ![f].pc = IF @ = "attempt1" THEN "write1" ELSE "write2",
                              ![f].snapshot = db_state]
    /\ UNCHANGED <<db_state, pending_updates, pending_tasks, call_pc, call_shape,
                   writer_pc, writer_snap>>
    /\ UNCHANGED notStoreVars

\* update_state lines 174-181 and the commit of line 249 or 256
FlushWrite(f) ==
    /\ flush[f].pc \in {"write1", "write2"}
    /\ db_state' = DeepMerge(flush[f].snapshot, flush[f].updates)
    /\ flush' = [flush EXCEPT ![f].pc = "committed", ![f].writes = @ + 1]
    /\ UNCHANGED <<pending_updates, pending_tasks, call_pc, call_shape,
                   writer_pc, writer_snap>>
    /\ UNCHANGED notStoreVars

\* lines 250-252: the first update_state raises (the store stayed busy
\* through its retries, or any other failure); the flush tries once more
FlushAttemptFails(f) ==
    /\ flush[f].pc = "write1"
    /\ flush' = [flush EXCEPT ![f].pc = "attempt2", ![f].snapshot = NoSnapshot]
    /\ UNCHANGED <<db_state, pending_updates, pending_tasks, call_pc, call_shape,
                   writer_pc, writer_snap>>
    /\ UNCHANGED notStoreVars

\* lines 257-258: the second update_state raises too; the error is printed
\* and the updates are gone
FlushRetryFails(f) ==
    /\ flush[f].pc = "write2"
    /\ flush' = [flush EXCEPT ![f].pc = "dropped", ![f].snapshot = NoSnapshot]
    /\ UNCHANGED <<db_state, pending_updates, pending_tasks, call_pc, call_shape,
                   writer_pc, writer_snap>>
    /\ UNCHANGED notStoreVars

\* update_state line 170 in a caller with a database session of its own
WriterRead(w) ==
    /\ writer_pc[w] = "idle"
    /\ writer_pc' = [writer_pc EXCEPT ![w] = "read"]
    /\ writer_snap' = [writer_snap EXCEPT ![w] = db_state]
    /\ UNCHANGED <<db_state, pending_updates, pending_tasks, flush, call_pc,
                   call_shape>>
    /\ UNCHANGED notStoreVars

\* update_state lines 174-181 and the caller's commit
WriterWrite(w) ==
    /\ writer_pc[w] = "read"
    /\ db_state' = DeepMerge(writer_snap[w], WriterUpdate(w))
    /\ writer_pc' = [writer_pc EXCEPT ![w] = "done"]
    /\ UNCHANGED <<pending_updates, pending_tasks, flush, call_pc, call_shape,
                   writer_snap>>
    /\ UNCHANGED notStoreVars

NextBatch ==
    \/ \E c \in 1..MaxCalls : UpdateStateBatched(c)
    \/ \E f \in 1..Len(flush) : FlushWake(f)
    \/ \E f \in 1..Len(flush) : FlushRead(f)
    \/ \E f \in 1..Len(flush) : FlushWrite(f)
    \/ \E f \in 1..Len(flush) : FlushAttemptFails(f)
    \/ \E f \in 1..Len(flush) : FlushRetryFails(f)

NextStore ==
    \/ NextBatch
    \/ \E w \in 1..MaxWriters : WriterRead(w)
    \/ \E w \in 1..MaxWriters : WriterWrite(w)


-----------------------------------------------------------------------------
(* web API: build, roster update, execute, peer review, synthesize *)

\* the rosters a council configuration can carry
ApiRosters == {<<>>, <<[name |-> "A"]>>, <<[name |-> "A"], [name |-> "B"]>>}

\* a council configuration as stored: a non-empty dict even without agents
ConfigOf(roster) == D([council_name |-> V("council"), agents |-> V(roster)])

\* what CouncilBuilder.build_council returns when no valid JSON was produced
BuildError == D([error |-> V("Failed to generate valid council JSON after retries."),
                 raw_response |-> V("No response")])

\* what the Architect call can return
BuildOutputs == {ConfigOf(roster) : roster \in ApiRosters} \cup {BuildError}

\* council_config.get('agents', [])
AgentsOf(config) ==
    IF IsDict(config) /\ "agents" \in DOMAIN config.d THEN config.d.agents.v ELSE <<>>

\* the texts the Chairman can return
Verdicts == {"verdict 1", "verdict 2"}

\* truth value of state.get(key) for a field holding None or a dict
TruthyDict(x) == IsDict(x) /\ DOMAIN x.d # {}

\* truth value of state.get(key) for a field holding None or a list
TruthyList(x) == x.t = "v" /\ x.v # <<>>

\* truth value of state.get(key) for a field holding None or a string
TruthyText(x) == x.t = "v"

\* write_state_primary with batched=False: update_state
WriteState(state, updates) == DeepMerge(state, updates)

\* mutant: the status and the totals are copied only while the row has none
SyncSessionMetadataOnce(row, merged) ==
    LET tokens == IF "tokens" \in DOMAIN merged THEN merged.tokens ELSE D(EmptyDict)
        totals == IF IsDict(tokens) THEN tokens.d ELSE EmptyDict
    IN  [c \in DOMAIN row |->
           CASE c = "current_step" /\ "current_step" \in DOMAIN merged ->
                    merged.current_step.v
             [] c = "status" /\ "status" \in DOMAIN merged /\ row[c] = "idle" ->
                    merged.status.v
             [] c = "last_cost_usd" /\ "total_cost_usd" \in DOMAIN totals /\ row[c] = Null ->
                    totals.total_cost_usd
             [] c = "last_total_tokens" /\ "total_tokens" \in DOMAIN totals ->
                    totals.total_tokens
             [] OTHER -> row[c]]

\* _sync_session_metadata: the columns copied from the merged document
SyncSessionMetadata(row, merged) ==
    LET tokens == IF "tokens" \in DOMAIN merged THEN merged.tokens ELSE D(EmptyDict)
        totals == IF IsDict(tokens) THEN tokens.d ELSE EmptyDict
    IN  [c \in DOMAIN row |->
           CASE c = "current_step" /\ "current_step" \in DOMAIN merged ->
                    merged.current_step.v
             [] c = "status" /\ "status" \in DOMAIN merged ->
                    merged.status.v
             [] c = "last_cost_usd" /\ "total_cost_usd" \in DOMAIN totals ->
                    totals.total_cost_usd
             [] c = "last_total_tokens" /\ "total_tokens" \in DOMAIN totals ->
                    totals.total_tokens
             [] OTHER -> row[c]]

\* an HTTP response: the endpoint, the status code and the body
Resp(op, code, body) == [op |-> op, code |-> code, body |-> body]

NoResp == Resp("none", 0, Null)

\* mutant: the final write of execute_council_task leaves the stage at execute
StageAfterExecuteSlip(op) ==
    V(CASE op = "force_build"      -> "build"
        [] op = "build"            -> "edit"
        [] op = "update_council"   -> "execute"
        [] op = "execute"          -> "execute"
        [] op = "execute_task"     -> "execute"
        [] op = "peer_review"      -> "review"
        [] op = "peer_review_task" -> "synthesize"
        [] op = "synthesize"       -> "complete")

\* the current_step each operation writes (api.py 518, 544, 612, 795, 692,
\* 1066, 969, 1207)
StageAfter(op) ==
    V(CASE op = "force_build"      -> "build"
        [] op = "build"            -> "edit"
        [] op = "update_council"   -> "execute"
        [] op = "execute"          -> "execute"
        [] op = "execute_task"     -> "review"
        [] op = "peer_review"      -> "review"
        [] op = "peer_review_task" -> "synthesize"
        [] op = "synthesize"       -> "complete")

\* the document after init_state and create_session
InitialApiState ==
    [question          |-> V("question"),
     council_config    |-> Null,
     execution_results |-> Null,
     execution_status  |-> D(EmptyDict),
     execution_error   |-> Null,
     peer_reviews      |-> Null,
     aggregated_scores |-> Null,
     review_status     |-> D(EmptyDict),
     review_error      |-> Null,
     chairman_verdict  |-> Null,
     status            |-> V("idle"),
     current_step      |-> V("build")]

\* the sessions row after create_session
InitialRow == [current_step |-> "build", status |-> "idle"]

\* the reset written by a forced rebuild, a roster update and a forced
\* re-execution
ClearExecution ==
    [execution_results |-> Null,
     execution_status  |-> D(EmptyDict),
     execution_error   |-> Null,
     peer_reviews      |-> Null,
     aggregated_scores |-> Null,
     review_status     |-> D(EmptyDict),
     review_error      |-> Null,
     chairman_verdict  |-> Null]

\* the reset written by a forced re-review
ClearReview ==
    [peer_reviews      |-> Null,
     aggregated_scores |-> Null,
     review_status     |-> D(EmptyDict),
     review_error      |-> Null,
     chairman_verdict  |-> Null]

\* the status each worker's run can end with
ProposalStatuses == {"success", "error"}

\* what execute_council returns for the configuration a task read, statuses
\* being the outcome of each worker's run
ExecutionOutput(config, statuses) ==
    LET agents == AgentsOf(config) IN
    IF agents = <<>>
    THEN D([error |-> V("No agents found in council configuration.")])
    ELSE D([council_name       |-> V("council"),
            original_question  |-> V("question"),
            execution_results  |->
                V([i \in 1..Len(agents) |->
                      [proposal_id |-> i, agent_name |-> agents[i].name,
                       status |-> statuses[i]]])])

\* what run_peer_review returns: one entry per reviewer task
PeerReviewOutput(config, results) ==
    LET pos == ReviewerPositions(AgentsOf(config), results) IN
    V([j \in 1..Len(pos) |-> [reviewer |-> results[pos[j]].agent_name]])

\* state["execution_results"]["execution_results"] can be evaluated
ResultsReadable(state) ==
    /\ IsDict(state.execution_results)
    /\ "execution_results" \in DOMAIN state.execution_results.d

\* the preconditions the endpoints test before anything else
ExecutePrecondition(state) == TruthyDict(state.council_config)

PeerReviewPrecondition(state) == TruthyDict(state.execution_results)

SynthesizePrecondition(state) ==
    /\ TruthyDict(state.execution_results)
    /\ TruthyList(state.peer_reviews)

\* mutant: a rejected request records the failure in the document
StateAfterRejectionMarked(state) == WriteState(state, [status |-> V("rejected")])

\* HTTPException(400) is raised before any write: the document is left as read
StateAfterRejection(state) == state

NoOrigin == [execution_results |-> 0, peer_reviews |-> 0, chairman_verdict |-> 0]

\* a unit of work that spans a model call
Unit(kind, pc, e) == [kind |-> kind, pc |-> pc, epoch |-> e, config |-> Null, results |-> Null]

InitApi ==
    /\ api_state = InitialApiState
    /\ api_row = InitialRow
    /\ api_tasks = <<>>
    /\ api_resp = NoResp
    /\ model_calls = 0
    /\ epoch = 0
    /\ origin = NoOrigin

IdleApi ==
    /\ api_state = EmptyDict
    /\ api_row = InitialRow
    /\ api_tasks = <<>>
    /\ api_resp = NoResp
    /\ model_calls = 0
    /\ epoch = 0
    /\ origin = NoOrigin

\* build_council lines 504-522: the document after the reset of a forced
\* rebuild
StateAfterBuildStart(state, force) ==
    IF force
    THEN WriteState(state,
                    ClearExecution @@ [status       |-> V("build_in_progress"),
                                       current_step |-> StageAfter("force_build")])
    ELSE state

\* build_council lines 491-532: with force, reset the later stages; then
\* await the Architect
BuildStart(force) ==
    /\ Len(api_tasks) < MaxTasks
    /\ ~(TruthyDict(api_state.council_config) /\ ~force)
    /\ force => epoch < MaxRedo
    /\ epoch' = IF force THEN epoch + 1 ELSE epoch
    /\ api_state' = StateAfterBuildStart(api_state, force)
    /\ api_row' = SyncSessionMetadata(api_row, api_state')
    /\ api_tasks' = Append(api_tasks, Unit("build", "running", epoch'))
    /\ model_calls' = model_calls + 1
    /\ UNCHANGED <<api_resp, origin>>
    /\ UNCHANGED notApiVars

\* build_council lines 500-502: the stored configuration is returned
BuildCached ==
    /\ TruthyDict(api_state.council_config)
    /\ api_resp' = Resp("build", 200, api_state.council_config)
    /\ UNCHANGED <<api_state, api_row, api_tasks, model_calls, epoch, origin>>
    /\ UNCHANGED notApiVars

\* build_council lines 532-564: the Architect returned; what it returned is
\* stored as the configuration
BuildFinish(t, council_config) ==
    /\ api_tasks[t].kind = "build"
    /\ api_tasks[t].pc = "running"
    /\ api_state' = WriteState(api_state,
                               [council_config |-> council_config,
                                current_step   |-> StageAfter("build"),
                                status         |-> V("build_complete")])
    /\ api_row' = SyncSessionMetadata(api_row, api_state')
    /\ api_tasks' = [api_tasks EXCEPT ![t].pc = "done"]
    /\ api_resp' = Resp("build", 200, council_config)
    /\ UNCHANGED <<model_calls, epoch, origin>>
    /\ UNCHANGED notApiVars

\* build_council lines 573-574: the Architect call raised, nothing is written
BuildFails(t) ==
    /\ api_tasks[t].kind = "build"
    /\ api_tasks[t].pc = "running"
    /\ api_tasks' = [api_tasks EXCEPT ![t].pc = "failed"]
    /\ api_resp' = Resp("build", 500, Null)
    /\ UNCHANGED <<api_state, api_row, model_calls, epoch, origin>>
    /\ UNCHANGED notApiVars

\* update_council lines 598-629: store the roster and reset the later stages
UpdateCouncil(roster) ==
    /\ epoch < MaxRedo
    /\ epoch' = epoch + 1
    /\ api_state' =
          WriteState(api_state,
                     ClearExecution @@ [council_config |-> ConfigOf(roster),
                                        current_step   |-> StageAfter("update_council"),
                                        status         |-> V("ready_to_execute")])
    /\ api_row' = SyncSessionMetadata(api_row, api_state')
    /\ api_resp' = Resp("update_council", 200, V("success"))
    /\ UNCHANGED <<api_tasks, model_calls, origin>>
    /\ UNCHANGED notApiVars

\* execute_council endpoint lines 760-765: no configuration stored
ExecuteRejected ==
    /\ ~ExecutePrecondition(api_state)
    /\ api_state' = StateAfterRejection(api_state)
    /\ api_resp' = Resp("execute", 400, Null)
    /\ UNCHANGED <<api_row, api_tasks, model_calls, epoch, origin>>
    /\ UNCHANGED notApiVars

\* execute_council endpoint lines 767-769: results exist and force is not set
ExecuteCached ==
    /\ ExecutePrecondition(api_state)
    /\ TruthyDict(api_state.execution_results)
    /\ api_resp' = Resp("execute", 200, V("already_executed"))
    /\ UNCHANGED <<api_state, api_row, api_tasks, model_calls, epoch, origin>>
    /\ UNCHANGED notApiVars

\* execute_council endpoint lines 772-787: a forced request resets the later
\* stages if results are stored
ExecuteResets(state, force) == force /\ TruthyDict(state.execution_results)

\* execute_council endpoint lines 771-799: the document after the reset and
\* the status write
StateAfterExecute(state, force) ==
    LET cleared == IF ExecuteResets(state, force)
                   THEN WriteState(state, ClearExecution) ELSE state
    IN  WriteState(cleared, [status       |-> V("executing"),
                             current_step |-> StageAfter("execute")])

\* execute_council endpoint lines 771-823: reset on force, mark the session
\* executing, queue the background task
Execute(force) ==
    /\ Len(api_tasks) < MaxTasks
    /\ ExecutePrecondition(api_state)
    /\ ~(TruthyDict(api_state.execution_results) /\ ~force)
    /\ ExecuteResets(api_state, force) => epoch < MaxRedo
    /\ epoch' = IF ExecuteResets(api_state, force) THEN epoch + 1 ELSE epoch
    /\ api_state' = StateAfterExecute(api_state, force)
    /\ api_row' = SyncSessionMetadata(api_row, api_state')
    /\ api_tasks' = Append(api_tasks, Unit("execute", "queued", epoch'))
    /\ api_resp' = Resp("execute", 200, V("accepted"))
    /\ UNCHANGED <<model_calls, origin>>
    /\ UNCHANGED notApiVars

\* execute_council_task lines 645-676: the task reads the state it runs on
\* and hands it to the runner, which calls the model unless there is no agent
ExecTaskRead(t) ==
    /\ api_tasks[t].kind = "execute"
    /\ api_tasks[t].pc = "queued"
    /\ api_tasks' = [api_tasks EXCEPT ![t].pc = "running",
                                      ![t].config = api_state.council_config]
    /\ model_calls' = IF AgentsOf(api_state.council_config) = <<>>
                      THEN model_calls ELSE model_calls + 1
    /\ UNCHANGED <<api_state, api_row, api_resp, epoch, origin>>
    /\ UNCHANGED notApiVars

\* execute_council_task lines 676-704: the council returned, final write
ExecTaskFinish(t, statuses) ==
    /\ api_tasks[t].kind = "execute"
    /\ api_tasks[t].pc = "running"
    /\ api_state' = WriteState(api_state,
                               [execution_results |-> ExecutionOutput(api_tasks[t].config,
                                                                      statuses),
                                current_step      |-> StageAfter("execute_task"),
                                status            |-> V("execution_complete")])
    /\ api_row' = SyncSessionMetadata(api_row, api_state')
    /\ origin' = [origin EXCEPT !.execution_results = api_tasks[t].epoch]
    /\ api_tasks' = [api_tasks EXCEPT ![t].pc = "done"]
    /\ UNCHANGED <<api_resp, model_calls, epoch>>
    /\ UNCHANGED notApiVars

\* execute_council_task lines 707-722: the council raised
ExecTaskFails(t) ==
    /\ api_tasks[t].kind = "execute"
    /\ api_tasks[t].pc = "running"
    /\ api_state' = WriteState(api_state,
                               [execution_error |-> V("error"),
                                status          |-> V("execution_error")])
    /\ api_row' = SyncSessionMetadata(api_row, api_state')
    /\ api_tasks' = [api_tasks EXCEPT ![t].pc = "failed"]
    /\ UNCHANGED <<api_resp, model_calls, epoch, origin>>
    /\ UNCHANGED notApiVars

\* peer_review endpoint lines 1035-1040: no execution results stored
PeerReviewRejected ==
    /\ ~PeerReviewPrecondition(api_state)
    /\ api_state' = StateAfterRejection(api_state)
    /\ api_resp' = Resp("peer_review", 400, Null)
    /\ UNCHANGED <<api_row, api_tasks, model_calls, epoch, origin>>
    /\ UNCHANGED notApiVars

\* peer_review endpoint lines 1042-1044: reviews exist and force is not set
PeerReviewCached ==
    /\ PeerReviewPrecondition(api_state)
    /\ TruthyList(api_state.peer_reviews)
    /\ api_resp' = Resp("peer_review", 200, V("already_reviewed"))
    /\ UNCHANGED <<api_state, api_row, api_tasks, model_calls, epoch, origin>>
    /\ UNCHANGED notApiVars

\* peer_review endpoint lines 1046-1070: the document after the reset of a
\* forced request with reviews stored and the status write
StateAfterPeerReview(state, force) ==
    LET cleared == IF force /\ TruthyList(state.peer_reviews)
                   THEN WriteState(state, ClearReview) ELSE state
    IN  WriteState(cleared, [status       |-> V("reviewing"),
                             current_step |-> StageAfter("peer_review")])

\* peer_review endpoint lines 1046-1092: reset on force, mark the session
\* reviewing, queue the background task
PeerReview(force) ==
    /\ Len(api_tasks) < MaxTasks
    /\ PeerReviewPrecondition(api_state)
    /\ ~(TruthyList(api_state.peer_reviews) /\ ~force)
    /\ api_state' = StateAfterPeerReview(api_state, force)
    /\ api_row' = SyncSessionMetadata(api_row, api_state')
    /\ api_tasks' = Append(api_tasks, Unit("review", "queued", epoch))
    /\ api_resp' = Resp("peer_review", 200, V("accepted"))
    /\ UNCHANGED <<model_calls, epoch, origin>>
    /\ UNCHANGED notApiVars

\* peer_review_task lines 922-948: the task reads the configuration and the
\* proposals and hands them to the reviewer, which calls the model once per
\* reviewer task
ReviewTaskRead(t) ==
    /\ api_tasks[t].kind = "review"
    /\ api_tasks[t].pc = "queued"
    /\ ResultsReadable(api_state)
    /\ api_tasks' = [api_tasks EXCEPT
                        ![t].pc = "running",
                        ![t].config = api_state.council_config,
                        ![t].results = api_state.execution_results.d.execution_results]
    /\ model_calls' =
          IF ReviewerPositions(AgentsOf(api_state.council_config),
                               api_state.execution_results.d.execution_results.v) = <<>>
          THEN model_calls ELSE model_calls + 1
    /\ UNCHANGED <<api_state, api_row, api_resp, epoch, origin>>
    /\ UNCHANGED notApiVars

\* peer_review_task lines 948-981: the reviews returned, final write
ReviewTaskFinish(t) ==
    /\ api_tasks[t].kind = "review"
    /\ api_tasks[t].pc = "running"
    /\ api_state' =
          WriteState(api_state,
                     [peer_reviews      |-> PeerReviewOutput(api_tasks[t].config,
                                                             api_tasks[t].results.v),
                      aggregated_scores |-> V("scores"),
                      current_step      |-> StageAfter("peer_review_task"),
                      status            |-> V("review_complete")])
    /\ api_row' = SyncSessionMetadata(api_row, api_state')
    /\ origin' = [origin EXCEPT !.peer_reviews = api_tasks[t].epoch]
    /\ api_tasks' = [api_tasks EXCEPT ![t].pc = "done"]
    /\ UNCHANGED <<api_resp, model_calls, epoch>>
    /\ UNCHANGED notApiVars

\* peer_review_task lines 984-999: reading the proposals or the review raised
ReviewTaskFails(t) ==
    /\ api_tasks[t].kind = "review"
    /\ \/ api_tasks[t].pc = "running"
       \/ api_tasks[t].pc = "queued" /\ ~ResultsReadable(api_state)
    /\ api_state' = WriteState(api_state,
                               [review_error |-> V("error"),
                                status       |-> V("review_error")])
    /\ api_row' = SyncSessionMetadata(api_row, api_state')
    /\ api_tasks' = [api_tasks EXCEPT ![t].pc = "failed"]
    /\ UNCHANGED <<api_resp, model_calls, epoch, origin>>
    /\ UNCHANGED notApiVars

\* synthesize lines 1165-1176: proposals or reviews are missing
SynthRejected ==
    /\ ~SynthesizePrecondition(api_state)
    /\ api_state' = StateAfterRejection(api_state)
    /\ api_resp' = Resp("synthesize", 400, Null)
    /\ UNCHANGED <<api_row, api_tasks, model_calls, epoch, origin>>
    /\ UNCHANGED notApiVars

\* synthesize lines 1178-1180: the stored verdict is returned
SynthCached ==
    /\ SynthesizePrecondition(api_state)
    /\ TruthyText(api_state.chairman_verdict)
    /\ api_resp' = Resp("synthesize", 200, api_state.chairman_verdict)
    /\ UNCHANGED <<api_state, api_row, api_tasks, model_calls, epoch, origin>>
    /\ UNCHANGED notApiVars

\* synthesize lines 1182-1183 and 1232-1233: the stored results hold no
\* 'execution_results' key, the KeyError becomes a 500
SynthUnreadable(force) ==
    /\ SynthesizePrecondition(api_state)
    /\ ~(TruthyText(api_state.chairman_verdict) /\ ~force)
    /\ ~ResultsReadable(api_state)
    /\ api_resp' = Resp("synthesize", 500, Null)
    /\ UNCHANGED <<api_state, api_row, api_tasks, model_calls, epoch, origin>>
    /\ UNCHANGED notApiVars

\* synthesize lines 1182-1196: await the Chairman on the proposals and
\* reviews read
SynthStart(force) ==
    /\ Len(api_tasks) < MaxTasks
    /\ SynthesizePrecondition(api_state)
    /\ ~(TruthyText(api_state.chairman_verdict) /\ ~force)
    /\ ResultsReadable(api_state)
    /\ api_tasks' =
          Append(api_tasks,
                 [Unit("synth", "running", epoch) EXCEPT
                     !.results = api_state.execution_results.d.execution_results])
    /\ model_calls' = model_calls + 1
    /\ UNCHANGED <<api_state, api_row, api_resp, epoch, origin>>
    /\ UNCHANGED notApiVars

\* synthesize lines 1203-1223: the verdict is stored and returned
SynthFinish(t, final_verdict) ==
    /\ api_tasks[t].kind = "synth"
    /\ api_tasks[t].pc = "running"
    /\ api_state' = WriteState(api_state,
                               [chairman_verdict |-> V(final_verdict),
                                current_step     |-> StageAfter("synthesize"),
                                status           |-> V("verdict_complete")])
    /\ api_row' = SyncSessionMetadata(api_row, api_state')
    /\ origin' = [origin EXCEPT !.chairman_verdict = api_tasks[t].epoch]
    /\ api_tasks' = [api_tasks EXCEPT ![t].pc = "done"]
    /\ api_resp' = Resp("synthesize", 200, V(final_verdict))
    /\ UNCHANGED <<model_calls, epoch>>
    /\ UNCHANGED notApiVars

\* synthesize lines 1232-1233: the Chairman call raised, nothing is written
SynthFails(t) ==
    /\ api_tasks[t].kind = "synth"
    /\ api_tasks[t].pc = "running"
    /\ api_tasks' = [api_tasks EXCEPT ![t].pc = "failed"]
    /\ api_resp' = Resp("synthesize", 500, Null)
    /\ UNCHANGED <<api_state, api_row, model_calls, epoch, origin>>
    /\ UNCHANGED notApiVars

NextApi ==
    \/ \E force \in BOOLEAN : BuildStart(force)
    \/ BuildCached
    \/ \E t \in 1..Len(api_tasks) : \E council_config \in BuildOutputs :
          BuildFinish(t, council_config)
    \/ \E t \in 1..Len(api_tasks) : BuildFails(t)
    \/ \E roster \in ApiRosters : UpdateCouncil(roster)
    \/ ExecuteRejected
    \/ ExecuteCached
    \/ \E force \in BOOLEAN : Execute(force)
    \/ \E t \in 1..Len(api_tasks) : ExecTaskRead(t)
    \/ \E t \in 1..Len(api_tasks) :
          \E statuses \in [1..Len(AgentsOf(api_tasks[t].config)) -> ProposalStatuses] :
             ExecTaskFinish(t, statuses)
    \/ \E t \in 1..Len(api_tasks) : ExecTaskFails(t)
    \/ PeerReviewRejected
    \/ PeerReviewCached
    \/ \E force \in BOOLEAN : PeerReview(force)
    \/ \E t \in 1..Len(api_tasks) : ReviewTaskRead(t)
    \/ \E t \in 1..Len(api_tasks) : ReviewTaskFinish(t)
    \/ \E t \in 1..Len(api_tasks) : ReviewTaskFails(t)
    \/ SynthRejected
    \/ SynthCached
    \/ \E force \in BOOLEAN : SynthUnreadable(force)
    \/ \E force \in BOOLEAN : SynthStart(force)
    \/ \E t \in 1..Len(api_tasks) : \E final_verdict \in Verdicts : SynthFinish(t, final_verdict)
    \/ \E t \in 1..Len(api_tasks) : SynthFails(t)

-----------------------------------------------------------------------------
(* SessionStateService._retry_on_lock *)

\* what one call of func does: it returns, it raises OperationalError
\* 'database is locked', or it raises anything else
Outcomes == {"ok", "locked", "other"}

Min2(a, b) == IF a <= b THEN a ELSE b

\* line 57: min(base_delay * 1.8 ** attempt, 5.0) with base_delay 0.5, in
\* milliseconds; the power grows with attempt and exceeds the cap from
\* attempt 4 on, so the exponent is held at 5 to stay within machine integers
DelayMs(attempt) ==
    LET e == Min2(attempt, 5) IN Min2((500 * 18^e) \div 10^e, 5000)

\* mutant: the loop never runs out of attempts
LoopContinuesAlways(attempt, max_attempts) == TRUE

\* line 48: for attempt in range(max_attempts) has a next iteration
LoopContinues(attempt, max_attempts) == attempt + 1 < max_attempts

\* line 54: attempt < max_attempts - 1
MoreAttempts(attempt, max_attempts) == attempt < max_attempts - 1

InitRetry ==
    /\ rl_max \in 1..MaxAttempts
    /\ rl_attempt = 0
    /\ rl_pc = "call"
    /\ rl_hist = <<>>
    /\ rl_delay = 0

IdleRetry ==
    /\ rl_max = 0
    /\ rl_attempt = 0
    /\ rl_pc = "idle"
    /\ rl_hist = <<>>
    /\ rl_delay = 0

\* lines 49-50: func returns, its result is returned at once
RetryCallReturns ==
    /\ rl_pc = "call"
    /\ rl_hist' = Append(rl_hist, "ok")
    /\ rl_pc' = "returned"
    /\ UNCHANGED <<rl_max, rl_attempt, rl_delay>>
    /\ UNCHANGED notRetryVars

\* lines 51-59: func raises 'database is locked'; sleep before the next
\* iteration unless this was the last attempt, in which case the loop ends
\* and DatabaseBusyError is raised (63-66)
RetryCallLocked ==
    /\ rl_pc = "call"
    /\ rl_hist' = Append(rl_hist, "locked")
    /\ IF MoreAttempts(rl_attempt, rl_max)
       THEN /\ rl_pc' = "sleep"
            /\ rl_delay' = DelayMs(rl_attempt)
            /\ UNCHANGED rl_attempt
       ELSE /\ IF LoopContinues(rl_attempt, rl_max)
               THEN rl_pc' = "call" /\ rl_attempt' = rl_attempt + 1
               ELSE rl_pc' = "busy" /\ UNCHANGED rl_attempt
            /\ UNCHANGED rl_delay
    /\ UNCHANGED rl_max
    /\ UNCHANGED notRetryVars

\* lines 60-61, and exceptions that are not OperationalError: re-raised
RetryCallRaises ==
    /\ rl_pc = "call"
    /\ rl_hist' = Append(rl_hist, "other")
    /\ rl_pc' = "raised"
    /\ UNCHANGED <<rl_max, rl_attempt, rl_delay>>
    /\ UNCHANGED notRetryVars

\* lines 58-59: the sleep ends and continue takes the next iteration of the
\* loop, or leaves it when there is none (63-66)
RetryWake ==
    /\ rl_pc = "sleep"
    /\ IF LoopContinues(rl_attempt, rl_max)
       THEN rl_pc' = "call" /\ rl_attempt' = rl_attempt + 1
       ELSE rl_pc' = "busy" /\ UNCHANGED rl_attempt
    /\ UNCHANGED <<rl_max, rl_hist, rl_delay>>
    /\ UNCHANGED notRetryVars

NextRetry ==
    \/ RetryCallReturns
    \/ RetryCallLocked
    \/ RetryCallRaises
    \/ RetryWake

-----------------------------------------------------------------------------
(* SessionStateService._deep_merge on arbitrary documents *)

\* values that are not dicts: None, numbers, lists
LeafVals == {Null, V(1), V(2), L(<<1, 2>>), L(<<3>>)}

\* the dicts with keys among "x" and "y", x holding a value of xvals and y a
\* value of yvals
NestedDicts(xvals, yvals) ==
    UNION {{f \in [S -> xvals \cup yvals] :
               /\ "x" \in S => f["x"] \in xvals
               /\ "y" \in S => f["y"] \in yvals} : S \in SUBSET {"x", "y"}}

RECURSIVE MergeVals(_)
\* the values nested at most d dicts deep
MergeVals(d) ==
    IF d = 0
    THEN LeafVals
    ELSE LeafVals \cup {D(f) : f \in NestedDicts(MergeVals(d - 1), {V(2), Null})}

\* the documents given to _deep_merge: keys among "a" and "b"
MergeDocs ==
    LET avals == MergeVals(MergeDepth - 1)
        bvals == {V(1), V(2)}
    IN  UNION {{f \in [S -> avals \cup bvals] :
                   /\ "a" \in S => f["a"] \in avals
                   /\ "b" \in S => f["b"] \in bvals} : S \in SUBSET {"a", "b"}}

InitMerge ==
    /\ mg_base \in MergeDocs
    /\ mg_updates \in MergeDocs
    /\ mg_result = EmptyDict
    /\ mg_pc = "input"

IdleMerge ==
    /\ mg_base = EmptyDict
    /\ mg_updates = EmptyDict
    /\ mg_result = EmptyDict
    /\ mg_pc = "idle"

\* update_state line 174: merged_state = _deep_merge(current_state, updates)
MergeApply ==
    /\ mg_pc = "input"
    /\ mg_result' = DeepMerge(mg_base, mg_updates)
    /\ mg_pc' = "merged"
    /\ UNCHANGED <<mg_base, mg_updates>>
    /\ UNCHANGED notMergeVars

NextMerge == MergeApply

-----------------------------------------------------------------------------
(* CouncilReviewer.review_others parsing and AgentCouncilService.aggregate_reviews *)

\* a score of a per_proposal entry: a number, or something that is not one
Num(n) == [k |-> "num", n |-> n]

ScoreText == [k |-> "str", n |-> 0]

Scores == {Num(3), Num(5), ScoreText}

\* the tldr of a per_proposal entry: a text, or empty
Tldrs == {"a", ""}

\* a per_proposal entry that is an object
Item(pid, score, tldr) == [t |-> "item", proposal_id |-> pid, score |-> score, tldr |-> tldr]

\* a per_proposal entry that is not an object (a string, a number)
BadItem == [t |-> "bad"]

Items == {Item(pid, score, tldr) : pid \in 1..MaxBuckets, score \in Scores, tldr \in Tldrs}
            \cup {BadItem}

\* what a reviewer's model call can give: an exception, text that is not
\* JSON, JSON that is not an object (truthy like [1] or falsy like 0), or an
\* object with a per_proposal list
ReviewerOutputs ==
    {[t |-> "failed"], [t |-> "text"]}
        \cup {[t |-> "json", truthy |-> b] : b \in BOOLEAN}
        \cup {[t |-> "obj", per |-> per] : per \in SeqsUpTo(Items, MaxItems)}

\* review_others lines 108-129: parsed is None before json.loads; once
\* json.loads returns it holds the decoded value, also when parsed.get then
\* raises because the value is not an object
ParsedOf(output) ==
    CASE output.t = "failed" -> [t |-> "none"]
      [] output.t = "text"   -> [t |-> "none"]
      [] output.t = "json"   -> output
      [] output.t = "obj"    -> output

\* the critique entries handed to aggregate_reviews
ReviewsOf(outputs) == [i \in 1..Len(outputs) |-> [parsed |-> ParsedOf(outputs[i])]]

\* `if not parsed`: None or a falsy JSON value (an empty object, falsy too,
\* has no entries and adds nothing either way)
ParsedFalsy(parsed) ==
    \/ parsed.t = "none"
    \/ parsed.t = "json" /\ ~parsed.truthy

\* isinstance(score, (int, float))
IsNumeric(score) == score.k = "num"

\* item.get("tldr") or "": the empty text stands for a missing, null or
\* empty tldr
TldrOrEmpty(item) == item.tldr

EmptyBucket == [scores |-> <<>>, comments |-> <<>>]

\* mutant: the buckets of the previous call are kept
BucketsKept(previous, execution_results) ==
    [pid \in {execution_results[i].proposal_id : i \in 1..Len(execution_results)} |->
        IF previous.ok /\ pid \in DOMAIN previous.agg THEN previous.agg[pid] ELSE EmptyBucket]

\* aggregate_reviews lines 149-154: a fresh dict with an empty bucket for
\* every proposal_id, whatever an earlier call returned
Buckets(previous, execution_results) ==
    [pid \in {execution_results[i].proposal_id : i \in 1..Len(execution_results)} |->
        EmptyBucket]

\* what a call gives: the dict returned, or the exception raised
Returned(agg) == [ok |-> TRUE, agg |-> agg]

Raised == [ok |-> FALSE, agg |-> <<>>]

\* mutant: the tldr is recorded only if non-empty
AddItemSkipEmpty(agg, item) ==
    IF item.proposal_id \in DOMAIN agg
    THEN [agg EXCEPT ![item.proposal_id] =
            [scores   |-> IF IsNumeric(item.score) THEN Append(@.scores, item.score)
                          ELSE @.scores,
             comments |-> IF TldrOrEmpty(item) # "" THEN Append(@.comments, TldrOrEmpty(item))
                          ELSE @.comments]]
    ELSE agg

\* mutant: only the first score and comment of a proposal are recorded
AddItemFirstOnly(agg, item) ==
    IF item.proposal_id \in DOMAIN agg /\ agg[item.proposal_id].comments = <<>>
    THEN [agg EXCEPT ![item.proposal_id] =
            [scores   |-> IF IsNumeric(item.score) THEN Append(@.scores, item.score)
                          ELSE @.scores,
             comments |-> Append(@.comments, TldrOrEmpty(item))]]
    ELSE agg

\* aggregate_reviews lines 162-167 for one entry that is an object
AddItem(agg, item) ==
    IF item.proposal_id \in DOMAIN agg
    THEN [agg EXCEPT ![item.proposal_id] =
            [scores   |-> IF IsNumeric(item.score) THEN Append(@.scores, item.score)
                          ELSE @.scores,
             comments |-> Append(@.comments, TldrOrEmpty(item))]]
    ELSE agg

\* the loop of line 161 from entry i on; item.get raises on an entry that is
\* not an object
RECURSIVE AddItems(_, _, _)
AddItems(agg, per, i) ==
    IF i > Len(per) THEN Returned(agg)
    ELSE IF per[i].t = "bad" THEN Raised
    ELSE AddItems(AddItem(agg, per[i]), per, i + 1)

\* the loop of line 156 from critique j on; parsed.get raises on a truthy
\* value that is not an object
RECURSIVE AddReviews(_, _, _)
AddReviews(agg, peer_reviews, j) ==
    IF j > Len(peer_reviews) THEN Returned(agg)
    ELSE LET parsed == peer_reviews[j].parsed IN
         IF ParsedFalsy(parsed) THEN AddReviews(agg, peer_reviews, j + 1)
         ELSE IF parsed.t = "json" THEN Raised
         ELSE LET one == AddItems(agg, parsed.per, 1) IN
              IF one.ok THEN AddReviews(one.agg, peer_reviews, j + 1) ELSE Raised

\* aggregate_reviews, previous being what the call before returned
AggregateReviews(previous, execution_results, peer_reviews) ==
    AddReviews(Buckets(previous, execution_results), peer_reviews, 1)

\* peer_review_task lines 956-999: the status the review stage ends with
StatusAfterAggregation(result) ==
    IF result.ok THEN "review_complete" ELSE "review_error"

\* the critique list in another order: p is a permutation of its positions
Reordered(peer_reviews, p) == [i \in 1..Len(peer_reviews) |-> peer_reviews[p[i]]]

PermutationsOf(n) == {p \in [1..n -> 1..n] : \A i, j \in 1..n : p[i] = p[j] => i = j}

NoCall == [ok |-> FALSE, agg |-> <<>>]

InitAgg ==
    /\ ag_results \in {[i \in 1..n |-> [proposal_id |-> i]] : n \in 0..MaxBuckets}
    /\ ag_outputs \in SeqsUpTo(ReviewerOutputs, MaxReviews)
    /\ ag_reviews = ReviewsOf(ag_outputs)
    /\ ag_out = <<>>
    /\ ag_order = <<>>
    /\ ag_status = "reviewing"

IdleAgg ==
    /\ ag_results = <<>>
    /\ ag_outputs = <<>>
    /\ ag_reviews = <<>>
    /\ ag_out = <<>>
    /\ ag_order = <<>>
    /\ ag_status = "idle"

\* peer_review_task lines 956-999: the aggregation of the peer_reviews just
\* collected decides how the stage ends
AggregateCall ==
    /\ ag_out = <<>>
    /\ ag_out' = <<AggregateReviews(NoCall, ag_results, ag_reviews)>>
    /\ ag_status' = StatusAfterAggregation(ag_out'[1])
    /\ UNCHANGED <<ag_results, ag_outputs, ag_reviews, ag_order>>
    /\ UNCHANGED notAggVars

\* the same call once more on the same arguments
AggregateAgain ==
    /\ Len(ag_out) = 1
    /\ ag_out' = Append(ag_out, AggregateReviews(ag_out[1], ag_results, ag_reviews))
    /\ UNCHANGED <<ag_results, ag_outputs, ag_reviews, ag_order, ag_status>>
    /\ UNCHANGED notAggVars

\* a call on the critiques in the order p
AggregateReordered(p) ==
    /\ Len(ag_out) = 2
    /\ ag_order = <<>>
    /\ Len(ag_reviews) > 0
    /\ ag_order' = p
    /\ ag_out' = Append(ag_out, AggregateReviews(ag_out[2], ag_results,
                                                 Reordered(ag_reviews, p)))
    /\ UNCHANGED <<ag_results, ag_outputs, ag_reviews, ag_status>>
    /\ UNCHANGED notAggVars

NextAgg ==
    \/ AggregateCall
    \/ AggregateAgain
    \/ \E p \in PermutationsOf(Len(ag_reviews)) : AggregateReordered(p)

-----------------------------------------------------------------------------
(* SessionStateService.init_state, update_state and the sessions row *)

\* the row written by SessionService.create_session_metadata
CreatedRow ==
    [current_step      |-> "build",
     status            |-> "idle",
     last_cost_usd     |-> Null,
     last_total_tokens |-> Null]

\* the document written by init_state: no status key, empty tokens
InitialStateDoc ==
    [current_step   |-> V("input"),
     question       |-> V("question"),
     council_config |-> Null,
     tokens         |-> D(EmptyDict)]

\* the tokens values a stage writes: the logger's cost breakdown, with or
\* without totals, an empty dict, or null
TokenUpdates ==
    {Null, D(EmptyDict),
     D([total_cost_usd |-> V(1)]),
     D([total_tokens |-> V(10)]),
     D([total_cost_usd |-> V(2), total_tokens |-> V(20)])}

\* the updates given to update_state: any of current_step, status, tokens
StateUpdates ==
    LET values == [current_step |-> {V("build"), V("edit")},
                   status       |-> {V("idle"), V("build_complete")},
                   tokens       |-> TokenUpdates]
    IN  UNION {{f \in [S -> UNION {values[k] : k \in S}] : \A k \in S : f[k] \in values[k]}
                  : S \in SUBSET {"current_step", "status", "tokens"}}

\* the column values given to SessionService.update_session_metadata
ColumnUpdates ==
    {[current_step |-> c] : c \in {"build", "execute"}}
        \cup {[current_step |-> c, status |-> st] :
                 c \in {"build", "execute"}, st \in {"idle", "executing"}}
        \cup {[current_step |-> c, status |-> st, last_cost_usd |-> x] :
                 c \in {"build", "execute"}, st \in {"idle", "executing"}, x \in {Null, V(3)}}

\* update(Session).values(**updates)
WriteColumns(row, columns) ==
    [c \in DOMAIN row |-> IF c \in DOMAIN columns THEN columns[c] ELSE row[c]]

InitSync ==
    /\ sy_doc = EmptyDict
    /\ sy_row = CreatedRow
    /\ sy_last = "create_session_metadata"
    /\ sy_writes = 0

IdleSync ==
    /\ sy_doc = EmptyDict
    /\ sy_row = EmptyDict
    /\ sy_last = "idle"
    /\ sy_writes = 0

\* init_state: persist the initial document, then sync the row
InitStateCall ==
    /\ sy_last = "create_session_metadata"
    /\ sy_doc' = InitialStateDoc
    /\ sy_row' = SyncSessionMetadata(sy_row, sy_doc')
    /\ sy_last' = "init_state"
    /\ UNCHANGED sy_writes
    /\ UNCHANGED notSyncVars

\* update_state completing: merge, persist, sync
UpdateStateCall(updates) ==
    /\ sy_last \notin {"idle", "create_session_metadata"}
    /\ sy_writes < MaxUpdates
    /\ sy_doc' = DeepMerge(sy_doc, updates)
    /\ sy_row' = SyncSessionMetadata(sy_row, sy_doc')
    /\ sy_last' = "update_state"
    /\ sy_writes' = sy_writes + 1
    /\ UNCHANGED notSyncVars

\* SessionService.update_session_metadata: columns written directly
UpdateSessionMetadata(columns) ==
    /\ sy_last \notin {"idle", "create_session_metadata"}
    /\ sy_writes < MaxUpdates
    /\ sy_row' = WriteColumns(sy_row, columns)
    /\ sy_last' = "update_session_metadata"
    /\ sy_writes' = sy_writes + 1
    /\ UNCHANGED sy_doc
    /\ UNCHANGED notSyncVars

NextSync ==
    \/ InitStateCall
    \/ \E updates \in StateUpdates : UpdateStateCall(updates)
    \/ \E columns \in ColumnUpdates : UpdateSessionMetadata(columns)

-----------------------------------------------------------------------------
(* Session endpoints: authorize_session_access and the outcome of the state write *)

Users == {"owner", "other"}

\* the endpoints that write the state of a session
StageEndpoints == {"build", "update_council", "execute", "peer_review", "synthesize"}

\* the endpoints that only read it
ReadEndpoints == {"status", "results", "reviews", "summary"}

\* how an update_state call of a handler can end: it returns, it raises
\* DatabaseBusyError once the retries are used up, or it raises something else
WriteOutcomes == {"ok", "busy", "error"}

\* the documents of a session after each stage has completed, the progress
\* maps holding what the batched progress updates of the run wrote
AccessStates ==
    LET built    == WriteState(InitialApiState,
                               [council_config |-> ConfigOf(<<[name |-> "A"], [name |-> "B"]>>),
                                current_step   |-> StageAfter("build"),
                                status         |-> V("build_complete")])
        executed == WriteState(built,
                               [execution_results |->
                                    ExecutionOutput(built.council_config,
                                                    <<"success", "success">>),
                                execution_status  |-> D([A |-> V("Done"), B |-> V("Done")]),
                                current_step      |-> StageAfter("execute_task"),
                                status            |-> V("execution_complete")])
        reviewed == WriteState(executed,
                               [peer_reviews      |->
                                    PeerReviewOutput(executed.council_config,
                                        executed.execution_results.d.execution_results.v),
                                aggregated_scores |-> V("scores"),
                                review_status     |-> D([A |-> V("Critique Complete"),
                                                         B |-> V("Critique Complete")]),
                                current_step      |-> StageAfter("peer_review_task"),
                                status            |-> V("review_complete")])
        complete == WriteState(reviewed,
                               [chairman_verdict |-> V("verdict 1"),
                                current_step     |-> StageAfter("synthesize"),
                                status           |-> V("verdict_complete")])
    IN  {InitialApiState, built, executed, reviewed, complete}

\* mutant: the deleted flag of the row is not looked at
AuthorizeCodeIgnoringDeleted(user, deleted) ==
    IF user # "owner" THEN 404 ELSE 200

\* authorize_session_access: get_session filtered by the user finds no row
\* for another user's session (404); the owner's deleted row is gone (410)
AuthorizeCode(user, deleted) ==
    IF user # "owner" THEN 404
    ELSE IF deleted THEN 410
    ELSE 200

\* the handler passes its precondition and cache tests and reaches its writes
Proceeds(op, force, state) ==
    CASE op = "build"          -> ~(TruthyDict(state.council_config) /\ ~force)
      [] op = "update_council" -> TRUE
      [] op = "execute"        -> /\ ExecutePrecondition(state)
                                  /\ ~(TruthyDict(state.execution_results) /\ ~force)
      [] op = "peer_review"    -> /\ PeerReviewPrecondition(state)
                                  /\ ~(TruthyList(state.peer_reviews) /\ ~force)
      [] op = "synthesize"     -> /\ SynthesizePrecondition(state)
                                  /\ ~(TruthyText(state.chairman_verdict) /\ ~force)
                                  /\ ResultsReadable(state)

\* the answer of a handler that does not reach a write: the stored result
\* (200), the failed precondition (400) or the unreadable results (500)
CodeWithoutWrite(op, state) ==
    CASE op = "build"       -> 200
      [] op = "execute"     -> IF ExecutePrecondition(state) THEN 200 ELSE 400
      [] op = "peer_review" -> IF PeerReviewPrecondition(state) THEN 200 ELSE 400
      [] op = "synthesize"  -> IF ~SynthesizePrecondition(state) THEN 400
                               ELSE IF TruthyText(state.chairman_verdict) THEN 200
                               ELSE 500

\* the update_state calls a handler makes: the reset of a forced redo comes
\* before the write of the stage
WritesOf(op, force, state) ==
    CASE op = "build"          -> IF force THEN 2 ELSE 1
      [] op = "update_council" -> 1
      [] op = "execute"        -> IF ExecuteResets(state, force) THEN 2 ELSE 1
      [] op = "peer_review"    -> IF force /\ TruthyList(state.peer_reviews) THEN 2 ELSE 1
      [] op = "synthesize"     -> 1

\* the except clauses of the handlers: update_council has none for
\* DatabaseBusyError, which falls to `except Exception`
CodeOfWrite(op, outcome) ==
    CASE outcome = "ok"    -> 200
      [] outcome = "busy"  -> IF op = "update_council" THEN 500 ELSE 503
      [] outcome = "error" -> 500

\* the document after all the writes of a handler
StateWritten(op, force, state) ==
    CASE op = "build" ->
            WriteState(StateAfterBuildStart(state, force),
                       [council_config |-> ConfigOf(<<[name |-> "A"]>>),
                        current_step   |-> StageAfter("build"),
                        status         |-> V("build_complete")])
      [] op = "update_council" ->
            WriteState(state,
                       ClearExecution @@ [council_config |-> ConfigOf(<<[name |-> "B"]>>),
                                          current_step   |-> StageAfter("update_council"),
                                          status         |-> V("ready_to_execute")])
      [] op = "execute"     -> StateAfterExecute(state, force)
      [] op = "peer_review" -> StateAfterPeerReview(state, force)
      [] op = "synthesize" ->
            WriteState(state,
                       [chairman_verdict |-> V("verdict 2"),
                        current_step     |-> StageAfter("synthesize"),
                        status           |-> V("verdict_complete")])

\* the request invoked the model or queued a background task: build and
\* synthesize call the model before their last write, execute and peer_review
\* queue the task after their writes
StartsWork(op, failed, writes) ==
    CASE op = "build"          -> failed = 0 \/ failed = writes
      [] op = "update_council" -> FALSE
      [] op = "execute"        -> failed = 0
      [] op = "peer_review"    -> failed = 0
      [] op = "synthesize"     -> TRUE

Request(op, user, deleted, outcome, before) ==
    [op |-> op, user |-> user, deleted |-> deleted, outcome |-> outcome, before |-> before]

InitAccess ==
    /\ ac_state \in AccessStates
    /\ ac_deleted = FALSE
    /\ ac_last = Request("none", "owner", FALSE, "none", ac_state)
    /\ ac_code = 0
    /\ ac_started = FALSE
    /\ ac_requests = 0

IdleAccess ==
    /\ ac_state = EmptyDict
    /\ ac_deleted = FALSE
    /\ ac_last = Request("none", "owner", FALSE, "none", EmptyDict)
    /\ ac_code = 0
    /\ ac_started = FALSE
    /\ ac_requests = 0

\* authorize_session_access raises: the handler ends before it reads the state
AccessDenied(op, user) ==
    /\ ac_requests < MaxRequests
    /\ AuthorizeCode(user, ac_deleted) # 200
    /\ ac_code' = AuthorizeCode(user, ac_deleted)
    /\ ac_last' = Request(op, user, ac_deleted, "none", ac_state)
    /\ ac_started' = FALSE
    /\ ac_requests' = ac_requests + 1
    /\ UNCHANGED <<ac_state, ac_deleted>>
    /\ UNCHANGED notAccessVars

\* a read endpoint, or a stage endpoint answering from the state, for the
\* owner of a live session
AnsweredWithoutWrite(op, force) ==
    /\ ac_requests < MaxRequests
    /\ AuthorizeCode("owner", ac_deleted) = 200
    /\ op \in StageEndpoints => ~Proceeds(op, force, ac_state)
    /\ ac_code' = IF op \in StageEndpoints THEN CodeWithoutWrite(op, ac_state) ELSE 200
    /\ ac_last' = Request(op, "owner", ac_deleted, "none", ac_state)
    /\ ac_started' = FALSE
    /\ ac_requests' = ac_requests + 1
    /\ UNCHANGED <<ac_state, ac_deleted>>
    /\ UNCHANGED notAccessVars

\* a stage endpoint whose writes all return
StageWritten(op, force) ==
    /\ ac_requests < MaxRequests
    /\ AuthorizeCode("owner", ac_deleted) = 200
    /\ Proceeds(op, force, ac_state)
    /\ ac_state' = StateWritten(op, force, ac_state)
    /\ ac_code' = CodeOfWrite(op, "ok")
    /\ ac_last' = Request(op, "owner", ac_deleted, "ok", ac_state)
    /\ ac_started' = StartsWork(op, 0, WritesOf(op, force, ac_state))
    /\ ac_requests' = ac_requests + 1
    /\ UNCHANGED ac_deleted
    /\ UNCHANGED notAccessVars

\* a stage endpoint one of whose writes raises: the transaction is rolled back
StageWriteFails(op, force, failed, outcome) ==
    /\ ac_requests < MaxRequests
    /\ AuthorizeCode("owner", ac_deleted) = 200
    /\ Proceeds(op, force, ac_state)
    /\ failed <= WritesOf(op, force, ac_state)
    /\ ac_code' = CodeOfWrite(op, outcome)
    /\ ac_last' = Request(op, "owner", ac_deleted, outcome, ac_state)
    /\ ac_started' = StartsWork(op, failed, WritesOf(op, force, ac_state))
    /\ ac_requests' = ac_requests + 1
    /\ UNCHANGED <<ac_state, ac_deleted>>
    /\ UNCHANGED notAccessVars

\* delete_session: soft_delete_session finds the owner's row, deleted or not,
\* marks it and the document; another user's request finds nothing
DeleteSession(user) ==
    /\ ac_requests < MaxRequests
    /\ ac_code' = IF user = "owner" THEN 200 ELSE 404
    /\ ac_deleted' = (ac_deleted \/ user = "owner")
    /\ ac_state' = IF user = "owner"
                   THEN WriteState(ac_state, [deleted |-> V(TRUE)]) ELSE ac_state
    /\ ac_last' = Request("delete", user, ac_deleted, "none", ac_state)
    /\ ac_started' = FALSE
    /\ ac_requests' = ac_requests + 1
    /\ UNCHANGED notAccessVars

NextAccess ==
    \/ \E op \in StageEndpoints \cup ReadEndpoints, user \in Users : AccessDenied(op, user)
    \/ \E op \in StageEndpoints \cup ReadEndpoints, force \in BOOLEAN :
          AnsweredWithoutWrite(op, force)
    \/ \E op \in StageEndpoints, force \in BOOLEAN : StageWritten(op, force)
    \/ \E op \in StageEndpoints, force \in BOOLEAN, failed \in 1..2,
          outcome \in WriteOutcomes \ {"ok"} : StageWriteFails(op, force, failed, outcome)
    \/ \E user \in Users : DeleteSession(user)

-----------------------------------------------------------------------------
(* SessionLogger and the tokens field written by each stage *)

\* the stages in the order they are requested
StageSequence == <<"build", "execute", "review", "synthesize">>

\* MODEL_PRICING["default"], in cents per million tokens
DefaultInputPrice == 250
DefaultOutputPrice == 1000

\* the token counts of one call: even, so that its cost is a whole number of
\* millionths of a dollar and round(_, 6) meets no tie
TokenCounts == {2 * k : k \in 0..MaxUsage}

\* calculate_cost, in units of 10^-8 dollars
CalculateCost(input_tokens, output_tokens) ==
    input_tokens * DefaultInputPrice + output_tokens * DefaultOutputPrice

\* round(total_cost, 6), in millionths of a dollar
Round6(cost) == (cost + 50) \div 100

\* SessionLogger.__init__: the totals start at zero
NewSessionLogger ==
    [total_input_tokens |-> 0, total_output_tokens |-> 0, total_cost |-> 0]

\* SessionLogger.log_llm_call: the totals of this logger grow by the call
LoggerAfterCall(logger, in_tokens, out_tokens) ==
    [total_input_tokens  |-> logger.total_input_tokens + in_tokens,
     total_output_tokens |-> logger.total_output_tokens + out_tokens,
     total_cost          |-> logger.total_cost + CalculateCost(in_tokens, out_tokens)]

\* SessionLogger.get_cost_breakdown
GetCostBreakdown(logger) ==
    D([input_tokens   |-> V(logger.total_input_tokens),
       output_tokens  |-> V(logger.total_output_tokens),
       total_tokens   |-> V(logger.total_input_tokens + logger.total_output_tokens),
       total_cost_usd |-> V(Round6(logger.total_cost))])

\* the stored totals, zero while the tokens dict is empty
StoredTotals(state) ==
    IF TruthyDict(state.tokens)
    THEN [total_tokens   |-> state.tokens.d.total_tokens.v,
          total_cost_usd |-> state.tokens.d.total_cost_usd.v]
    ELSE [total_tokens |-> 0, total_cost_usd |-> 0]

InitUsage ==
    /\ us_stage = 1
    /\ us_pc = "idle"
    /\ us_logger = NewSessionLogger
    /\ us_logged = 0
    /\ us_state = [tokens |-> D(EmptyDict)]
    /\ us_before = [total_tokens |-> 0, total_cost_usd |-> 0]
    /\ us_spent = [total_tokens |-> 0, total_cost |-> 0]

IdleUsage ==
    /\ us_stage = 0
    /\ us_pc = "off"
    /\ us_logger = NewSessionLogger
    /\ us_logged = 0
    /\ us_state = [tokens |-> D(EmptyDict)]
    /\ us_before = [total_tokens |-> 0, total_cost_usd |-> 0]
    /\ us_spent = [total_tokens |-> 0, total_cost |-> 0]

\* a stage begins: logger = SessionLogger(output_dir=str(logs_dir))
StageCreatesLogger ==
    /\ us_pc \in {"idle", "written"}
    /\ us_stage \in DOMAIN StageSequence
    /\ us_logger' = NewSessionLogger
    /\ us_logged' = 0
    /\ us_before' = StoredTotals(us_state)
    /\ us_pc' = "logging"
    /\ UNCHANGED <<us_stage, us_state, us_spent>>
    /\ UNCHANGED notUsageVars

\* a model call of the stage returns and is logged
LogLlmCall(in_tokens, out_tokens) ==
    /\ us_pc = "logging"
    /\ us_logged < MaxLogged
    /\ us_logger' = LoggerAfterCall(us_logger, in_tokens, out_tokens)
    /\ us_logged' = us_logged + 1
    /\ us_spent' = [total_tokens |-> us_spent.total_tokens + in_tokens + out_tokens,
                    total_cost   |-> us_spent.total_cost
                                       + CalculateCost(in_tokens, out_tokens)]
    /\ UNCHANGED <<us_stage, us_pc, us_state, us_before>>
    /\ UNCHANGED notUsageVars

\* the stage's final write: "tokens": logger.get_cost_breakdown()
StageWritesTokens ==
    /\ us_pc = "logging"
    /\ us_state' = DeepMerge(us_state, [tokens |-> GetCostBreakdown(us_logger)])
    /\ us_stage' = us_stage + 1
    /\ us_pc' = "written"
    /\ UNCHANGED <<us_logger, us_logged, us_before, us_spent>>
    /\ UNCHANGED notUsageVars

NextUsage ==
    \/ StageCreatesLogger
    \/ \E in_tokens \in TokenCounts, out_tokens \in TokenCounts :
          LogLlmCall(in_tokens, out_tokens)
    \/ StageWritesTokens

-----------------------------------------------------------------------------
(* What review_others and synthesize hand to the model, in two runs *)

\* the names of the workers of the first run, by position
NamePool == <<"A", "B", "C", "D">>

PersonaPool == {"analyst", "critic"}

\* the persona of the worker at position i of the first run
PersonaOf(i) == IF i % 2 = 1 THEN "analyst" ELSE "critic"

\* what a reviewer's call produces: text that is no JSON, JSON, JSON in which
\* the reviewer has put its own name under "reviewer", or an exception
ReviewKinds == {"unstructured", "clean", "signed", "error"}

\* a run: the roster, the stored execution results and each worker's kind of
\* critique
RunOf(names, personas, kinds) ==
    [agents  |-> [i \in 1..Len(names) |-> [name |-> names[i], persona |-> personas[i]]],
     results |-> [i \in 1..Len(names) |->
                     [proposal_id |-> i,
                      agent_name  |-> names[i],
                      status      |-> "success",
                      response    |-> <<"response", i>>]],
     kinds   |-> kinds]

\* the two runs: the same size, responses and critiques; the second with its
\* own names and personas
RunPair(names, personas, kinds) ==
    LET n == Len(kinds) IN
    [a |-> RunOf([i \in 1..n |-> NamePool[i]], [i \in 1..n |-> PersonaOf(i)], kinds),
     b |-> RunOf(names, personas, kinds)]

NoPrompt == [given |-> FALSE]

\* mutant: the proposals are handed over with their authors' names
ReviewOthersPromptNamed(reviewer_config, question, other_responses) ==
    [given        |-> TRUE,
     instructions |-> [name |-> reviewer_config.name, persona |-> reviewer_config.persona],
     question     |-> question,
     persona      |-> reviewer_config.persona,
     count        |-> Len(other_responses),
     others_text  |-> [k \in 1..Len(other_responses) |->
                          [proposal_id |-> other_responses[k].proposal_id,
                           agent_name  |-> other_responses[k].agent_name,
                           response    |-> other_responses[k].response]]]

\* review_others: the agent's instructions and the prompt, whose others_text
\* holds the proposal_id and the response of each proposal handed over
ReviewOthersPrompt(reviewer_config, question, other_responses) ==
    [given        |-> TRUE,
     instructions |-> [name |-> reviewer_config.name, persona |-> reviewer_config.persona],
     question     |-> question,
     persona      |-> reviewer_config.persona,
     count        |-> Len(other_responses),
     others_text  |-> [k \in 1..Len(other_responses) |->
                          [proposal_id |-> other_responses[k].proposal_id,
                           response    |-> other_responses[k].response]]]

\* the input of the reviewer at position i of a run, if run_peer_review builds
\* a task for it
ReviewerInput(run, question, i) ==
    LET tasks == BuildTasks(run.agents, run.results) IN
    IF \E t \in 1..Len(tasks) : tasks[t].pos = i
    THEN LET t == CHOOSE t \in 1..Len(tasks) : tasks[t].pos = i
         IN  ReviewOthersPrompt(tasks[t].conf, question, tasks[t].others)
    ELSE NoPrompt

\* the entry run_peer_review returns for a task, by the kind of its critique
ReviewEntryOf(task, kind) ==
    CASE kind = "unstructured" ->
            [reviewer |-> task.conf.name,
             critique |-> [text |-> "prose", signed |-> "nobody"],
             parsed   |-> Null]
      [] kind = "clean" ->
            [reviewer |-> task.conf.name,
             critique |-> [text |-> "json", signed |-> "nobody"],
             parsed   |-> D([overall_tldr |-> V("tldr")])]
      [] kind = "signed" ->
            [reviewer |-> task.conf.name,
             critique |-> [text |-> "json", signed |-> task.conf.name],
             parsed   |-> D([overall_tldr |-> V("tldr"), reviewer |-> V(task.conf.name)])]
      [] OTHER ->
            [reviewer |-> task.conf.name, error |-> ReviewErr]

\* the peer_reviews of a run
PeerReviewsOf(run) ==
    LET tasks == BuildTasks(run.agents, run.results) IN
    [t \in 1..Len(tasks) |-> ReviewEntryOf(tasks[t], run.kinds[tasks[t].pos])]

\* _truncate_for_token_limit: the texts here are shorter than max_chars
TruncateForTokenLimit(text) == text

\* review.get('critique', '')
EmptyCritique == [text |-> "", signed |-> "nobody"]

\* parsed_clean = dict(parsed); parsed_clean.pop("reviewer", None)
ParsedClean(parsed) == D([k \in DOMAIN parsed.d \ {"reviewer"} |-> parsed.d[k]])

\* synthesize: the prompt built from the question, the proposals and the reviews
SynthesizePrompt(question, execution_results, peer_reviews) ==
    [given     |-> TRUE,
     question  |-> question,
     proposals |-> [k \in 1..Len(execution_results) |->
                       [proposal_id |-> execution_results[k].proposal_id,
                        content     |-> TruncateForTokenLimit(execution_results[k].response)]],
     critiques |-> [k \in 1..Len(peer_reviews) |->
                       LET review == peer_reviews[k] IN
                       IF "parsed" \in DOMAIN review /\ TruthyDict(review.parsed)
                       THEN [idx |-> k, structured |-> TRUE,
                             body |-> ParsedClean(review.parsed)]
                       ELSE [idx |-> k, structured |-> FALSE,
                             body |-> IF "critique" \in DOMAIN review
                                      THEN review.critique ELSE EmptyCritique]]]

InitAnon ==
    /\ \E n \in 1..MaxCouncil :
          \E names \in [1..n -> {NamePool[i] : i \in 1..n}],
             personas \in [1..n -> PersonaPool],
             kinds \in [1..n -> ReviewKinds] :
                an_runs = RunPair(names, personas, kinds)
    /\ an_pc = "input"
    /\ an_reviewer = 0
    /\ an_inputs = [a |-> NoPrompt, b |-> NoPrompt]

IdleAnon ==
    /\ an_runs = [a |-> RunOf(<<>>, <<>>, <<>>), b |-> RunOf(<<>>, <<>>, <<>>)]
    /\ an_pc = "off"
    /\ an_reviewer = 0
    /\ an_inputs = [a |-> NoPrompt, b |-> NoPrompt]

\* both runs reach the reviewer at position i
ReviewOthersCall(i) ==
    /\ an_pc \in {"input", "reviewed", "synthesized"}
    /\ i \in 1..Len(an_runs.a.agents)
    /\ an_reviewer' = i
    /\ an_inputs' = [a |-> ReviewerInput(an_runs.a, "question", i),
                     b |-> ReviewerInput(an_runs.b, "question", i)]
    /\ an_pc' = "reviewed"
    /\ UNCHANGED an_runs
    /\ UNCHANGED notAnonVars

\* both runs reach the Chairman
SynthesizeCall ==
    /\ an_pc \in {"input", "reviewed"}
    /\ an_reviewer' = 0
    /\ an_inputs' = [a |-> SynthesizePrompt("question", an_runs.a.results,
                                            PeerReviewsOf(an_runs.a)),
                     b |-> SynthesizePrompt("question", an_runs.b.results,
                                            PeerReviewsOf(an_runs.b))]
    /\ an_pc' = "synthesized"
    /\ UNCHANGED an_runs
    /\ UNCHANGED notAnonVars

NextAnon ==
    \/ \E i \in 1..MaxCouncil : ReviewOthersCall(i)
    \/ SynthesizeCall

-----------------------------------------------------------------------------
(* Specifications: each component is checked alone, the others stay idle *)

\* the stage pipeline alone
InitOfApi == IdleRun /\ IdleReview /\ IdleStore /\ InitApi /\ IdleRetry /\ IdleMerge /\ IdleAgg /\ IdleSync /\ IdleAccess /\ IdleUsage /\ IdleAnon

SpecApi == InitOfApi /\ [][NextApi]_vars

\* the steps of the background task at position t: each model call returns or
\* raises, and the task's writes succeed
TaskStep(t) ==
    /\ t \in 1..Len(api_tasks)
    /\ \/ ExecTaskRead(t)
       \/ \E statuses \in [1..Len(AgentsOf(api_tasks[t].config)) -> ProposalStatuses] :
             ExecTaskFinish(t, statuses)
       \/ ExecTaskFails(t)
       \/ ReviewTaskRead(t)
       \/ ReviewTaskFinish(t)
       \/ ReviewTaskFails(t)

\* the event loop runs every queued background task to its end
FairSpecApi == SpecApi /\ \A t \in 1..MaxTasks : WF_vars(TaskStep(t))

\* the store alone: the other components stay idle
InitOfStore == IdleRun /\ IdleReview /\ InitStore /\ IdleApi /\ IdleRetry /\ IdleMerge /\ IdleAgg /\ IdleSync /\ IdleAccess /\ IdleUsage /\ IdleAnon

SpecBatch == InitOfStore /\ [][NextBatch]_vars

SpecStore == InitOfStore /\ [][NextStore]_vars

\* the executor alone
InitOfRun == InitRun /\ IdleReview /\ IdleStore /\ IdleApi /\ IdleRetry /\ IdleMerge /\ IdleAgg /\ IdleSync /\ IdleAccess /\ IdleUsage /\ IdleAnon

SpecRun == InitOfRun /\ [][NextRun]_vars

\* the peer review alone
InitOfReview == IdleRun /\ InitReview /\ IdleStore /\ IdleApi /\ IdleRetry /\ IdleMerge /\ IdleAgg /\ IdleSync /\ IdleAccess /\ IdleUsage /\ IdleAnon

SpecReview == InitOfReview /\ [][NextReview]_vars

\* the retry loop alone
InitOfRetry == IdleRun /\ IdleReview /\ IdleStore /\ IdleApi /\ InitRetry /\ IdleMerge /\ IdleAgg /\ IdleSync /\ IdleAccess /\ IdleUsage /\ IdleAnon

SpecRetry == InitOfRetry /\ [][NextRetry]_vars

\* the retry loop with weak fairness on its steps: a call of func settles
\* and a sleep ends
FairSpecRetry == SpecRetry /\ WF_vars(NextRetry)

\* the merge function alone
InitOfMerge == IdleRun /\ IdleReview /\ IdleStore /\ IdleApi /\ IdleRetry /\ InitMerge /\ IdleAgg /\ IdleSync /\ IdleAccess /\ IdleUsage /\ IdleAnon

SpecMerge == InitOfMerge /\ [][NextMerge]_vars

\* the aggregation of peer reviews alone
InitOfAgg == IdleRun /\ IdleReview /\ IdleStore /\ IdleApi /\ IdleRetry /\ IdleMerge /\ InitAgg /\ IdleSync /\ IdleAccess /\ IdleUsage /\ IdleAnon

SpecAgg == InitOfAgg /\ [][NextAgg]_vars

\* the state document and the sessions row alone
InitOfSync == IdleRun /\ IdleReview /\ IdleStore /\ IdleApi /\ IdleRetry /\ IdleMerge /\ IdleAgg /\ InitSync /\ IdleAccess /\ IdleUsage /\ IdleAnon

SpecSync == InitOfSync /\ [][NextSync]_vars

\* the session endpoints alone
InitOfAccess == IdleRun /\ IdleReview /\ IdleStore /\ IdleApi /\ IdleRetry /\ IdleMerge /\ IdleAgg /\ IdleSync /\ InitAccess /\ IdleUsage /\ IdleAnon

SpecAccess == InitOfAccess /\ [][NextAccess]_vars

InitOfUsage == IdleRun /\ IdleReview /\ IdleStore /\ IdleApi /\ IdleRetry /\ IdleMerge /\ IdleAgg /\ IdleSync /\ IdleAccess /\ InitUsage /\ IdleAnon

SpecUsage == InitOfUsage /\ [][NextUsage]_vars

InitOfAnon == IdleRun /\ IdleReview /\ IdleStore /\ IdleApi /\ IdleRetry /\ IdleMerge /\ IdleAgg /\ IdleSync /\ IdleAccess /\ IdleUsage /\ InitAnon

SpecAnon == InitOfAnon /\ [][NextAnon]_vars

-----------------------------------------------------------------------------
(* Properties of the fan-out executor *)

Intermediate == {"Initializing...", "Thinking & Searching..."}

Terminal == {"Done", "Failed"}

\* C1: whenever execute_council has returned, it returned exactly one result
\* per roster entry, the result at position i has proposal_id i and the
\* agent_name of the i-th roster entry, whatever the invoke outcomes and the
\* order in which the tasks settled; and invoke outcomes alone never make it
\* raise (it raises only when a task raised outside its try).
C1_ResultsInRosterOrder ==
    /\ exec_pc = "returned" =>
          /\ Len(exec_results) = N
          /\ \A i \in 1..N :
                /\ exec_results[i].proposal_id = i
                /\ exec_results[i].agent_name = agents_data[i].name
    /\ exec_pc = "raised" => \E i \in 1..N : task_pc[i] = "raised"
    /\ (exec_pc = "running" /\ \A i \in 1..N : invoke_outcome[i] # Pending)
          => ENABLED GatherReturns

\* C1 witness: a roster of at least two whose invocations all failed, the
\* last roster entry settling first, and execute_council has returned
C1_Witness ==
    /\ exec_pc = "returned"
    /\ N >= 2
    /\ completion[1] = N
    /\ agents_data[1].name # agents_data[N].name
    /\ \A i \in 1..N : invoke_outcome[i].kind = "error"

\* C2: a worker whose external call raised e has the result {status: error,
\* response: e}, also in the returned list; a sibling whose call returned has
\* its own success result, and a sibling whose call is still in flight can
\* still complete (it is neither cancelled nor blocked).
C2_FailureIsolated ==
    \A i \in 1..N :
        invoke_outcome[i].kind = "error" =>
            /\ task_result[i].status = "error"
            /\ task_result[i].response = invoke_outcome[i].msg
            /\ exec_pc = "returned" =>
                  /\ exec_results[i].status = "error"
                  /\ exec_results[i].response = invoke_outcome[i].msg
            /\ \A j \in 1..N \ {i} :
                  /\ task_pc[j] \in {"queued", "inflight", "returned", "raised"}
                  /\ invoke_outcome[j].kind = "ok" =>
                        /\ task_result[j].status = "success"
                        /\ task_result[j].response = invoke_outcome[j].text
                  /\ task_pc[j] = "inflight" =>
                        \A text \in Texts : ENABLED InvokeReturns(j, text)
                  /\ task_pc[j] = "queued" => ENABLED AgentStart(j)

\* C2 witness: the first worker's call raised, and a sibling that was still
\* in flight then has completed with success; execute_council has returned
C2_Witness ==
    /\ exec_pc = "returned"
    /\ N >= 2
    /\ completion[1] = 1
    /\ invoke_outcome[1].kind = "error"
    /\ \E j \in 2..N : invoke_outcome[j].kind = "ok" /\ exec_results[j].status = "success"

\* C3 (as claimed): when a worker's task itself raises, execute_council
\* still returns one result per roster entry, with an error entry for the
\* raising worker.
C3_RaisingTaskIsolated ==
    (exec_pc \in {"returned", "raised"} /\ \E i \in 1..N : task_pc[i] = "raised")
        => /\ exec_pc = "returned"
           /\ Len(exec_results) = N
           /\ \A i \in 1..N : task_pc[i] = "raised" => exec_results[i].status = "error"

-----------------------------------------------------------------------------
(* Properties of the review orchestrator *)

C6_OnlySuccessfulReview ==
    \A t \in 1..NT : rv_results[rv_tasks[t].pos].status = "success"

\* C6 (amended): whatever the status of its own proposal, a proposal's
\* worker gets a reviewer task exactly when its name is in the council
\* configuration and some proposal bears another name; the tasks are in
\* proposal order. With A, B, C where B's proposal is an error, three tasks
\* are built and B is a reviewer.
C6_ReviewersWhateverStatus ==
    rv_pc # "init" =>
        /\ \A i \in 1..Len(rv_results) :
              (\E t \in 1..NT : rv_tasks[t].pos = i)
                  <=> /\ \E j \in 1..Len(rv_agents) :
                            rv_agents[j].name = rv_results[i].agent_name
                      /\ \E k \in 1..Len(rv_results) :
                            rv_results[k].agent_name # rv_results[i].agent_name
        /\ \A a, b \in 1..NT : a < b => rv_tasks[a].pos < rv_tasks[b].pos
        /\ \A t \in 1..NT : rv_tasks[t].reviewer = rv_results[rv_tasks[t].pos].agent_name

\* C6 witness: the roster A, B, C with B's proposal an error and the
\* configuration intact: three tasks, B among the reviewers
C6_Witness ==
    /\ rv_pc # "init"
    /\ Len(rv_results) = 3
    /\ Len(rv_agents) = 3
    /\ rv_results[1].status = "success"
    /\ rv_results[2].status = "error"
    /\ rv_results[3].status = "success"
    /\ rv_results[2].agent_name = "B"
    /\ NT = 3
    /\ rv_tasks[2].reviewer = "B"

IsErrorEntry(r, reviewer) == r.reviewer = reviewer /\ "error" \in DOMAIN r

\* C7: when run_peer_review has returned, there is one entry per task; the
\* entry of a task that raised, or whose model call raised, is {reviewer,
\* error} for that task's reviewer, and every other task's critique is
\* returned as the task produced it; once all tasks have settled the stage
\* returns (it has no failing exit).
C7_ReviewFailureIsolated ==
    /\ rv_pc \in {"init", "running", "returned"}
    /\ (rv_pc = "running" /\ \A t \in 1..NT : rv_task_pc[t] = "settled")
          => ENABLED ReviewReturns
    /\ rv_pc = "returned" =>
          /\ Len(reviews) = NT
          /\ \A t \in 1..NT :
                /\ IsException(raw_reviews[t]) =>
                      /\ IsErrorEntry(reviews[t], rv_tasks[t].reviewer)
                      /\ reviews[t].error = raw_reviews[t].exception
                /\ "error" \in DOMAIN raw_reviews[t] =>
                      /\ IsErrorEntry(reviews[t], rv_tasks[t].reviewer)
                      /\ reviews[t].error = raw_reviews[t].error
                /\ "critique" \in DOMAIN raw_reviews[t] =>
                      /\ reviews[t] = raw_reviews[t]
                      /\ reviews[t].reviewer = rv_tasks[t].reviewer

\* C7 witness: run_peer_review returned after one task raised, one task's
\* model call raised and another task produced its critique
C7_Witness ==
    /\ rv_pc = "returned"
    /\ \E t \in 1..NT : IsException(raw_reviews[t])
    /\ \E t \in 1..NT : "error" \in DOMAIN raw_reviews[t]
    /\ \E t \in 1..NT : "critique" \in DOMAIN reviews[t]

-----------------------------------------------------------------------------
(* Properties of the session state store *)

\* document doc holds every leaf of updates with its value
Contains(doc, updates) == DeepMerge(doc, updates) = doc

AllCallsDone == \A c \in 1..MaxCalls : call_pc[c] = "done"

\* the updates of all the batched calls, merged in any order
AllCallUpdates(shape) ==
    IF shape = "top"
    THEN [k \in {CallKeys[c] : c \in 1..MaxCalls} |-> V("Done")]
    ELSE Single("execution_status",
                D([k \in {CallKeys[c] : c \in 1..MaxCalls} |-> V("Done")]))

\* C9: two mutations of the same session on disjoint fields, each a
\* read-merge-write through update_state (a direct caller such as the final
\* write of execution_results, or a batched flush of execution_status), both
\* survive: once a mutation has completed, the stored document holds its
\* fields, under every interleaving.
C9_DisjointWritesSurvive ==
    /\ \A w \in 1..MaxWriters :
          writer_pc[w] = "done" => Contains(db_state, WriterUpdate(w))
    /\ \A f \in 1..Len(flush) :
          flush[f].pc = "committed" => Contains(db_state, flush[f].updates)

-----------------------------------------------------------------------------
(* Properties of the stage pipeline *)

\* C8: after a stage redo (forced rebuild, roster update, forced
\* re-execution) no result of an earlier run appears in the state: the
\* proposals and the reviews stored were written by a task started after the
\* last redo, so a background task that started before the redo and finishes
\* after it does not store its results over the reset state.
C8_NoStaleResults ==
    /\ TruthyDict(api_state.execution_results) => origin.execution_results = epoch
    /\ TruthyList(api_state.peer_reviews) => origin.peer_reviews = epoch

-----------------------------------------------------------------------------
(* Properties of batching *)

\* the flush tasks still in their debounce sleep
SleepingFlushes == {f \in 1..Len(flush) : flush[f].pc = "sleeping"}

\* the batched calls whose key is in the payload of flush f
CallsIn(f) == {c \in 1..MaxCalls : HasCallKey(flush[f].updates, c, call_shape)}

FailureRecorded(doc) ==
    \/ "status" \in DOMAIN doc
          /\ doc["status"] \in {V("execution_error"), V("review_error"), V("store_busy")}
    \/ \E k \in {"execution_error", "review_error"} :
          k \in DOMAIN doc /\ doc[k] # Null

\* C12: an update accepted by the store is never silently dropped: when a
\* batched flush has given up, its updates are in the stored document or the
\* failure is recorded in the state (the flush runs as a background task, so
\* no caller is left to receive an exception).
C12_NoSilentDrop ==
    \A f \in 1..Len(flush) :
        flush[f].pc = "dropped" =>
            \/ Contains(db_state, flush[f].updates)
            \/ FailureRecorded(db_state)

-----------------------------------------------------------------------------
(* Properties of the retry loop *)

RetryDone == rl_pc \in {"returned", "busy", "raised"}

\* every call of func but the last one failed with 'database is locked'
OnlyLockedBeforeLast == \A i \in 1..(Len(rl_hist) - 1) : rl_hist[i] = "locked"

RetrySafe ==
    /\ Len(rl_hist) <= rl_max
    /\ OnlyLockedBeforeLast
    /\ rl_pc = "returned" => rl_hist # <<>> /\ rl_hist[Len(rl_hist)] = "ok"
    /\ rl_pc = "raised" => rl_hist # <<>> /\ rl_hist[Len(rl_hist)] = "other"
    /\ rl_pc = "busy" =>
          Len(rl_hist) = rl_max /\ \A i \in 1..Len(rl_hist) : rl_hist[i] = "locked"
    /\ (Len(rl_hist) = rl_max /\ \A i \in 1..Len(rl_hist) : rl_hist[i] = "locked")
          => rl_pc = "busy"
    /\ rl_pc \in {"call", "sleep"} => \A i \in 1..Len(rl_hist) : rl_hist[i] = "locked"
    /\ rl_pc = "sleep" => rl_delay <= 5000 /\ rl_delay >= 500
    /\ RetryDone => ~ENABLED NextRetry

\* C13: _retry_on_lock terminates; it calls the operation at most
\* max_attempts times; it returns the first successful result without a
\* further attempt; when every attempt fails with 'database is locked' it
\* raises DatabaseBusyError; any other error is re-raised on its first
\* occurrence without a retry.
C13_RetryTerminates == []RetrySafe /\ <>RetryDone

C13_Witness ==
    /\ rl_pc = "busy"
    /\ rl_max = 3
    /\ rl_hist = <<"locked", "locked", "locked">>
    /\ rl_delay = 900


-----------------------------------------------------------------------------
(* Properties of the deep merge *)

RECURSIVE IsMergeOf(_, _, _)
\* result is the deep merge of updates into base: it has the keys of both;
\* a key not in updates keeps its value; a key whose two values are dicts
\* holds the merge of the two; any other key of updates holds the update's
\* value as it is
IsMergeOf(result, base, updates) ==
    /\ DOMAIN result = DOMAIN base \cup DOMAIN updates
    /\ \A k \in DOMAIN result :
          IF k \notin DOMAIN updates
          THEN result[k] = base[k]
          ELSE IF k \in DOMAIN base /\ IsDict(base[k]) /\ IsDict(updates[k])
               THEN /\ IsDict(result[k])
                    /\ IsMergeOf(result[k].d, base[k].d, updates[k].d)
               ELSE result[k] = updates[k]

\* C14: the merge of update_state is deep: a key whose existing value and
\* update value are both maps holds the recursive key-by-key merge, existing
\* keys the update does not mention are kept, and in every other combination
\* (scalar, list, null, map over non-map, non-map over map) the update value
\* replaces the existing one wholesale, lists are never appended.
\* {a:{x:1}} then {a:{y:2}} gives a = {x:1, y:2}; {a:[1,2]} then {a:[3]}
\* gives a = [3].
C14_DeepMerge ==
    mg_pc = "merged" =>
        /\ IsMergeOf(mg_result, mg_base, mg_updates)
        /\ (mg_base = Single("a", D(Single("x", V(1))))
              /\ mg_updates = Single("a", D(Single("y", V(2)))))
           => mg_result = Single("a", D([k \in {"x", "y"} |->
                                            IF k = "x" THEN V(1) ELSE V(2)]))
        /\ (mg_base = Single("a", L(<<1, 2>>)) /\ mg_updates = Single("a", L(<<3>>)))
           => mg_result = Single("a", L(<<3>>))
        /\ \A k \in DOMAIN mg_base \cap DOMAIN mg_updates :
              (IsList(mg_base[k]) /\ IsList(mg_updates[k])) => mg_result[k] = mg_updates[k]

C14_Witness ==
    /\ mg_pc = "merged"
    /\ mg_base = Single("a", D(Single("x", V(1))))
    /\ mg_updates = Single("a", D(Single("y", V(2))))
    /\ DOMAIN mg_result["a"].d = {"x", "y"}


\* the stages in their order
StageOrder == <<"input", "build", "edit", "execute", "review", "synthesize", "complete">>

StageRank(step) == CHOOSE i \in 1..Len(StageOrder) : StageOrder[i] = step.v

BackwardWrites ==
    {<<"build", "build_in_progress">>, <<"edit", "build_complete">>,
     <<"execute", "ready_to_execute">>, <<"execute", "executing">>,
     <<"review", "reviewing">>, <<"review", "execution_complete">>,
     <<"synthesize", "review_complete">>}

-----------------------------------------------------------------------------
(* Properties of the stage preconditions *)

\* this step sent the response of a request to endpoint op
Responded(op) == api_resp' # api_resp /\ api_resp'.op = op

\* this step queued a background task of the given kind or started a handler's
\* model call
Started(kind) ==
    /\ Len(api_tasks') = Len(api_tasks) + 1
    /\ api_tasks'[Len(api_tasks')].kind = kind

\* C16: an execute request starts a background task and sets status
\* 'executing' only if the stored council_config holds at least one agent; a
\* configuration with an empty agents list or a build error record is rejected.
C16_ExecuteNeedsWorkers ==
    [][Started("execute") \/ (api_state'.status = V("executing") /\ api_state' # api_state)
          => AgentsOf(api_state.council_config) # <<>>]_vars


\* the proposals stored in the document, none if execution stored none
ProposalsOf(state) ==
    IF ResultsReadable(state) THEN state.execution_results.d.execution_results.v ELSE <<>>

\* at least one stored proposal has status 'success'
HasSuccessfulProposal(state) ==
    \E i \in 1..Len(ProposalsOf(state)) : ProposalsOf(state)[i].status = "success"

\* C17: a peer_review request queues the review task only if the stored
\* execution results hold at least one proposal with status 'success'; with
\* only 'error' proposals, or an error record in place of the results, the
\* request is rejected with a precondition error.
C17_ReviewNeedsSuccess ==
    [][Started("review") \/ (Responded("peer_review") /\ api_resp'.code # 400)
          => HasSuccessfulProposal(api_state)]_vars


\* the critique entries stored in the document, none if review stored none
CritiquesOf(state) ==
    IF TruthyList(state.peer_reviews) THEN state.peer_reviews.v ELSE <<>>

\* the document holds at least one proposal and at least one critique entry
ProposalAndCritique(state) ==
    ProposalsOf(state) # <<>> /\ CritiquesOf(state) # <<>>

\* this step decided a synthesize request on the document it read: it
\* rejected it, returned the stored verdict, failed, or called the Chairman
SynthDecided ==
    \/ Started("synth")
    \/ Responded("synthesize") /\ api_tasks' = api_tasks

\* C18: a synthesize request is rejected with a precondition error (400)
\* unless the document holds at least one proposal and at least one critique
\* entry, and it is accepted (the Chairman is called or the stored verdict is
\* returned) whenever both are present.
C18_SynthNeedsProposalAndCritique ==
    [][SynthDecided =>
          IF ProposalAndCritique(api_state)
          THEN Started("synth") \/ api_resp'.code = 200
          ELSE Responded("synthesize") /\ api_resp'.code = 400]_vars


\* the endpoints that test a precondition on the stored document
GuardedEndpoints == {"execute", "peer_review", "synthesize"}

\* this step rejected a request for a violated precondition
RejectedForPrecondition ==
    \E op \in GuardedEndpoints : Responded(op) /\ api_resp'.code = 400

\* C19: a request rejected for a violated precondition leaves the state
\* document and the summary row as they were, starts no task and calls no
\* model.
C19_RejectionChangesNothing ==
    [][RejectedForPrecondition =>
          /\ api_state' = api_state
          /\ api_row' = api_row
          /\ api_tasks' = api_tasks
          /\ model_calls' = model_calls]_vars

\* a synthesize request was rejected after execution, before any review
C19_Witness ==
    /\ api_resp = Resp("synthesize", 400, Null)
    /\ api_state.status = V("execution_complete")
    /\ api_row = [current_step |-> "review", status |-> "execution_complete"]
    /\ ProposalsOf(api_state) # <<>>
    /\ model_calls = 1


\* this step answered a synthesize request from the document alone, without
\* calling the Chairman and without the failure of reading the proposals:
\* what a request without force does once a verdict is stored
SynthAnsweredFromState ==
    /\ Responded("synthesize")
    /\ api_tasks' = api_tasks
    /\ api_resp'.code # 500

\* this step stored the output of a Chairman call
SynthStored ==
    /\ Responded("synthesize")
    /\ api_tasks' # api_tasks
    /\ api_resp'.code = 200

\* C20: with a verdict stored, a synthesize request without force returns
\* the stored verdict, calls no model and changes no state; a request that
\* calls the Chairman again stores what the Chairman returned as the verdict.
C20_SynthIdempotent ==
    [][/\ SynthAnsweredFromState /\ TruthyText(api_state.chairman_verdict)
             => /\ api_resp' = Resp("synthesize", 200, api_state.chairman_verdict)
                /\ model_calls' = model_calls
                /\ api_state' = api_state
                /\ api_row' = api_row
       /\ SynthStored => api_state'.chairman_verdict = api_resp'.body]_vars


-----------------------------------------------------------------------------
(* Properties of repeated and forced requests *)

\* this step answered a request to endpoint op without starting a task or a
\* model call: what a request without force does once the result is stored
AnsweredFromState(op) == Responded(op) /\ api_tasks' = api_tasks

\* nothing but the response differs after this step
OnlyResponded ==
    /\ api_state' = api_state
    /\ api_row' = api_row
    /\ api_tasks' = api_tasks
    /\ model_calls' = model_calls

\* C21: once a stage's result is stored, a request without force is answered
\* from the state: build returns the stored configuration, execute reports
\* 'already_executed', peer_review reports 'already_reviewed', and none of
\* them calls a model, starts a task or changes the state.
C21_RepeatedRequestIsCached ==
    [][/\ AnsweredFromState("build") /\ TruthyDict(api_state.council_config)
             => api_resp' = Resp("build", 200, api_state.council_config) /\ OnlyResponded
       /\ AnsweredFromState("execute") /\ TruthyDict(api_state.execution_results)
             => api_resp' = Resp("execute", 200, V("already_executed")) /\ OnlyResponded
       /\ AnsweredFromState("peer_review") /\ TruthyList(api_state.peer_reviews)
             => api_resp' = Resp("peer_review", 200, V("already_reviewed")) /\ OnlyResponded
      ]_vars


\* the fields derived by the stages after build, after execute, after review
DerivedAfterBuild ==
    {"execution_results", "peer_reviews", "aggregated_scores", "chairman_verdict"}

DerivedAfterExecute == {"peer_reviews", "aggregated_scores", "chairman_verdict"}

DerivedAfterReview == {"chairman_verdict"}

\* every field of keys is null in the document
AllNull(state, keys) == \A k \in keys : state[k] = Null

\* C22: in every reachable state a forced request leaves the derived state
\* of all later stages null: a forced build the proposals, critiques,
\* aggregated scores and verdict, a forced execute the critiques, aggregated
\* scores and verdict, a forced review the verdict.
C22_ForceClearsDownstream ==
    /\ AllNull(StateAfterBuildStart(api_state, TRUE), DerivedAfterBuild)
    /\ ExecutePrecondition(api_state)
          => AllNull(StateAfterExecute(api_state, TRUE), DerivedAfterExecute)
    /\ PeerReviewPrecondition(api_state)
          => AllNull(StateAfterPeerReview(api_state, TRUE), DerivedAfterReview)


\* this step is a roster update that changed the stored council_config
RosterChanged ==
    /\ api_state'.council_config # api_state.council_config
    /\ api_state'.status = V("ready_to_execute")

\* an execute run has started on the document, or a later stage holds results
RunStarted(state) ==
    \/ state.status = V("executing")
    \/ ~AllNull(state, DerivedAfterBuild)

\* C23: a roster update changes the stored roster only before execution:
\* never once status is 'executing' or a later stage holds results.
C23_RosterFrozenOnceRunStarted ==
    [][RosterChanged => ~RunStarted(api_state)]_vars


-----------------------------------------------------------------------------
(* Properties of the aggregation of peer reviews *)

\* the per_proposal entries of the critiques with a parsed structure, from
\* critique j on, in order of appearance
RECURSIVE EntriesOf(_, _)
EntriesOf(critiques, j) ==
    IF j > Len(critiques) THEN <<>>
    ELSE (IF critiques[j].parsed.t = "obj" THEN critiques[j].parsed.per ELSE <<>>)
            \o EntriesOf(critiques, j + 1)

\* the entries for proposal pid
EntriesFor(critiques, pid) ==
    SelectSeq(EntriesOf(critiques, 1), LAMBDA e : e.proposal_id = pid)

ScoresOfEntries(entries) == [i \in 1..Len(entries) |-> entries[i].score]

TldrsOfEntries(entries) == [i \in 1..Len(entries) |-> entries[i].tldr]

ProposalIds == {ag_results[i].proposal_id : i \in 1..Len(ag_results)}

\* the first call of aggregate_reviews returned
FirstCallReturned == Len(ag_out) >= 1 /\ ag_out[1].ok

\* every proposal has a bucket, and its scores are the numeric scores of its
\* entries in order of appearance
BucketsAndScores ==
    /\ DOMAIN ag_out[1].agg = ProposalIds
    /\ \A pid \in ProposalIds :
          ag_out[1].agg[pid].scores =
             ScoresOfEntries(SelectSeq(EntriesFor(ag_reviews, pid),
                                       LAMBDA e : IsNumeric(e.score)))

\* C24 (as claimed): the result has a bucket for every proposal_id; a
\* bucket's scores are the numeric scores, and its comments the non-empty
\* summaries, of the entries for that proposal in the critiques with a parsed
\* structure, in order of appearance; nothing else contributes.
C24_AggregateSkipsEmptySummaries ==
    FirstCallReturned =>
       /\ BucketsAndScores
       /\ \A pid \in ProposalIds :
             ag_out[1].agg[pid].comments =
                TldrsOfEntries(SelectSeq(EntriesFor(ag_reviews, pid),
                                         LAMBDA e : e.tldr # ""))

\* C24 (amended): as claimed, except that a bucket's comments hold the
\* summary of every entry for that proposal, the empty text for an entry
\* whose summary is missing or empty.
C24_AggregateKeepsEverySummary ==
    FirstCallReturned =>
       /\ BucketsAndScores
       /\ \A pid \in ProposalIds :
             ag_out[1].agg[pid].comments = TldrsOfEntries(EntriesFor(ag_reviews, pid))

\* C24 witness: one proposal; a critique with an entry for it (a numeric
\* score, no summary) and an entry for an unknown proposal, and a critique
\* without a parsed structure
C24_Witness ==
    /\ FirstCallReturned
    /\ Len(ag_results) = 1
    /\ ag_reviews = <<[parsed |-> [t |-> "obj",
                                   per |-> <<Item(1, Num(3), ""), Item(2, Num(5), "a")>>]],
                      [parsed |-> [t |-> "none"]]>>
    /\ ag_out[1].agg[1] = [scores |-> <<Num(3)>>, comments |-> <<"">>]


\* the arguments are what they were before the first call
InputsUntouched ==
    /\ ag_reviews = ReviewsOf(ag_outputs)
    /\ ag_results = [i \in 1..Len(ag_results) |-> [proposal_id |-> i]]

Occurrences(s) ==
    [x \in {s[i] : i \in 1..Len(s)} |-> Cardinality({i \in 1..Len(s) : s[i] = x})]

\* the call on the reordered critiques has been made
ReorderedCallMade == Len(ag_out) = 3

\* C26 (as claimed): for every permutation of the critique list,
\* aggregate_reviews returns the same aggregated scores for every proposal.
C26_AggregateSameInAnyOrder ==
    ReorderedCallMade => ag_out[3] = ag_out[2]

\* C26 (amended): for every permutation of the critique list,
\* aggregate_reviews returns, for every proposal, the same scores and the
\* same comments up to the order they are listed in (and it raises for one
\* order exactly if it raises for the other).
C26_AggregateSameUpToOrder ==
    ReorderedCallMade =>
       /\ ag_out[3].ok = ag_out[2].ok
       /\ ag_out[3].ok =>
            /\ DOMAIN ag_out[3].agg = DOMAIN ag_out[2].agg
            /\ \A pid \in DOMAIN ag_out[3].agg :
                  /\ Occurrences(ag_out[3].agg[pid].scores)
                        = Occurrences(ag_out[2].agg[pid].scores)
                  /\ Occurrences(ag_out[3].agg[pid].comments)
                        = Occurrences(ag_out[2].agg[pid].comments)

\* C26 witness: two critiques scoring the same proposal, aggregated in the
\* order given and in the opposite order
C26_Witness ==
    /\ ReorderedCallMade
    /\ ag_order = <<2, 1>>
    /\ ag_out[2].ok
    /\ ag_out[3].ok
    /\ \E pid \in DOMAIN ag_out[2].agg :
          /\ Len(ag_out[2].agg[pid].scores) = 2
          /\ ag_out[3].agg[pid].scores # ag_out[2].agg[pid].scores


\* the review stage has aggregated the critiques it collected
StageEnded == Len(ag_out) >= 1

\* C27: a reviewer output that is not the expected structured object (plain
\* text, JSON that is not an object, an object whose per_proposal entries are
\* malformed) never fails the review stage: a critique that is not an object
\* is stored without a parsed structure, and the stage ends in
\* review_complete, never in review_error.
C27_MalformedCritiqueNeverFailsStage ==
    StageEnded =>
       /\ ag_status = "review_complete"
       /\ \A i \in 1..Len(ag_outputs) :
             ag_outputs[i].t # "obj" => ag_reviews[i].parsed.t = "none"


-----------------------------------------------------------------------------
(* Properties of the sessions row *)

\* init_state or update_state is the call that completed last
StateJustWritten == sy_last \in {"init_state", "update_state"}

\* state.get("status"): none when the document has no status
StatusOfDoc(doc) == IF "status" \in DOMAIN doc THEN doc.status.v ELSE "none"

\* the row's totals are those of the document's tokens, where it has them
TotalsAgree ==
    IsDict(sy_doc.tokens) =>
       /\ "total_cost_usd" \in DOMAIN sy_doc.tokens.d =>
             sy_row.last_cost_usd = sy_doc.tokens.d.total_cost_usd
       /\ "total_tokens" \in DOMAIN sy_doc.tokens.d =>
             sy_row.last_total_tokens = sy_doc.tokens.d.total_tokens

\* C28 (as claimed): after init_state and after every completed
\* update_state the row's current_step and status are the document's, and
\* its cost and token totals are those of the document's tokens when present.
C28_RowAgreesWithDocument ==
    StateJustWritten =>
       /\ sy_row.current_step = sy_doc.current_step.v
       /\ sy_row.status = StatusOfDoc(sy_doc)
       /\ TotalsAgree

\* C28 (amended): as claimed, the status being the document's when the
\* document has one (init_state writes none, and the row keeps its own).
C28_RowAgreesWhereDocumentSpeaks ==
    StateJustWritten =>
       /\ sy_row.current_step = sy_doc.current_step.v
       /\ "status" \in DOMAIN sy_doc => sy_row.status = sy_doc.status.v
       /\ TotalsAgree

\* C28 witness: the row was written directly with other values, and an
\* update_state of the status and the totals alone brought it back to the
\* document
C28_Witness ==
    /\ sy_last = "update_state"
    /\ sy_writes = 2
    /\ sy_row = [current_step      |-> "input",
                 status            |-> "build_complete",
                 last_cost_usd     |-> V(2),
                 last_total_tokens |-> V(20)]


-----------------------------------------------------------------------------
(* Properties of the session endpoints *)

\* C29: whenever a state write made by build, roster update, execute,
\* peer_review or synthesize fails with DatabaseBusyError, the caller is
\* answered 503, not 404 and not 500.
C29_BusyWriteAnswered503 ==
    ac_last.outcome = "busy" => ac_code = 503

\* the last request was refused by authorize_session_access or its like:
\* made by another user, or by the owner on a deleted session
ByStranger == ac_last.op # "none" /\ ac_last.user # "owner"

ByOwnerOnDeleted == ac_last.op # "none" /\ ac_last.user = "owner" /\ ac_last.deleted

\* the request left the document as it was and started nothing
NothingDone == ac_state = ac_last.before /\ ~ac_started

\* C30 (as claimed): a request by a user who does not own the session is
\* answered 404, a request by the owner on a soft-deleted session 410, and in
\* both cases the state is unchanged and no stage is started.
C30_StrangerAndDeletedRefused ==
    /\ ByStranger => ac_code = 404 /\ NothingDone
    /\ ByOwnerOnDeleted => ac_code = 410 /\ NothingDone

\* C30 (amended): as claimed, for every request of the owner on a
\* soft-deleted session other than a repeated delete.
C30_RefusedExceptRepeatedDelete ==
    /\ ByStranger => ac_code = 404 /\ NothingDone
    /\ ByOwnerOnDeleted /\ ac_last.op # "delete" => ac_code = 410 /\ NothingDone

\* C30 witness: the owner deleted a session whose roster is stored and then
\* asked to execute it: answered 410
C30_Witness ==
    /\ ByOwnerOnDeleted
    /\ ac_last.op = "execute"
    /\ ExecutePrecondition(ac_state)
    /\ ~TruthyDict(ac_state.execution_results)
    /\ ac_code = 410


-----------------------------------------------------------------------------
(* Properties of the stored results across stages *)

\* a field of the document holds something other than null
NonNull(x) == x.t # "null"

\* C34: in every reachable state a non-null chairman_verdict implies
\* non-null peer_reviews and non-null execution_results, and non-null
\* peer_reviews implies non-null execution_results.
C34_LaterResultNeedsEarlier ==
    /\ NonNull(api_state.chairman_verdict) =>
          NonNull(api_state.peer_reviews) /\ NonNull(api_state.execution_results)
    /\ NonNull(api_state.peer_reviews) => NonNull(api_state.execution_results)


\* a background run of the given kind has been started and has not made its
\* final write yet
InFlight(kind) ==
    \E t \in 1..Len(api_tasks) :
       api_tasks[t].kind = kind /\ api_tasks[t].pc \in {"queued", "running"}

\* the result the requests of the given kind test before starting a run
StoredResult(kind) ==
    IF kind = "execute" THEN TruthyDict(api_state.execution_results)
    ELSE TruthyList(api_state.peer_reviews)

\* C36: an execute request arriving while an execute run is in flight and
\* has not stored its results (where a request with and without force do the
\* same) starts no second run; likewise for peer_review.
C36_OneRunInFlight ==
    [][\A kind \in {"execute", "review"} :
          InFlight(kind) /\ ~StoredResult(kind) => ~Started(kind)]_vars


\* the document of a session whose review stage has finished, every one of
\* its N >= 1 workers having produced a proposal
ReviewFinishedAllSucceeded(state) ==
    /\ state.status = V("review_complete")
    /\ state.current_step = V("synthesize")
    /\ ProposalsOf(state) # <<>>
    /\ \A i \in 1..Len(ProposalsOf(state)) : ProposalsOf(state)[i].status = "success"

\* C38: once the review stage has finished with status 'review_complete'
\* and stage 'synthesize' for a roster of N >= 1 workers that all succeeded,
\* a synthesize request is accepted, not rejected for its precondition.
C38_SynthesizeAcceptedAfterReview ==
    [][ReviewFinishedAllSucceeded(api_state) =>
          ~(Responded("synthesize") /\ api_resp'.code = 400)]_vars


-----------------------------------------------------------------------------
(* Properties of the order of the critiques *)

\* an entry holds a critique or an error, not both
CritiqueOrError(r) == ("critique" \in DOMAIN r) # ("error" \in DOMAIN r)

\* C39: run_peer_review returns exactly one entry per reviewer task it
\* created, in the order the tasks were created (proposal order), each entry
\* bearing its task's reviewer name and either a critique or an error,
\* whatever the order in which the tasks settled.
C39_OneEntryPerTaskInOrder ==
    rv_pc = "returned" =>
       /\ Len(reviews) = NT
       /\ \A a, b \in 1..NT : a < b => rv_tasks[a].pos < rv_tasks[b].pos
       /\ \A t \in 1..NT :
             /\ reviews[t].reviewer = rv_results[rv_tasks[t].pos].agent_name
             /\ CritiqueOrError(reviews[t])

\* C39 witness: three tasks of three different reviewers; the first raised,
\* the others settled with a critique and with an error of the model call
C39_Witness ==
    /\ rv_pc = "returned"
    /\ NT = 3
    /\ IsException(raw_reviews[1])
    /\ "critique" \in DOMAIN reviews[2]
    /\ "error" \in DOMAIN raw_reviews[3]
    /\ <<reviews[1].reviewer, reviews[2].reviewer, reviews[3].reviewer>> = <<"A", "B", "C">>


-----------------------------------------------------------------------------
(* Properties of the batching windows *)

\* the flushes whose payload holds the update of call c
FlushesHolding(c) == {f \in 1..Len(flush) : c \in CallsIn(f)}

\* the update of call c waits in the pending entry
WaitsPending(c) == HasCallKey(PendingGet(pending_updates, SessionId), c, call_shape)

\* C37: batching loses no update. Whenever _pending_updates holds an entry
\* for the session id, a flush task for it is registered in _pending_tasks;
\* and every update passed to update_state_batched either waits in the
\* pending entry and is in no payload yet, or is in the payload of exactly
\* one flush, also when it arrived while an earlier flush was writing.
C37_EachUpdateInOneFlush ==
    /\ SessionId \in DOMAIN pending_updates => TaskRegistered(pending_tasks, SessionId)
    /\ \A c \in 1..MaxCalls :
          call_pc[c] = "done" =>
             IF WaitsPending(c)
             THEN FlushesHolding(c) = {}
             ELSE Cardinality(FlushesHolding(c)) = 1

\* C37 witness: the first flush is still writing the update it took while
\* a second flush has taken the updates that arrived in the meantime
C37_Witness ==
    /\ Len(flush) = 2
    /\ flush[1].pc = "write1"
    /\ flush[2].pc = "attempt1"
    /\ CallsIn(1) = {1}
    /\ CallsIn(2) = {2, 3}


-----------------------------------------------------------------------------
(* Properties of the progress maps *)

\* the last request wrote the reset of the later stages, whose
\* execution_status and review_status are empty maps: a roster update, a
\* build over a stored roster or an execute over stored results (both forced)
WroteExecutionReset ==
    /\ ac_last.outcome = "ok"
    /\ \/ ac_last.op = "update_council"
       \/ ac_last.op = "build" /\ TruthyDict(ac_last.before.council_config)
       \/ ac_last.op = "execute" /\ TruthyDict(ac_last.before.execution_results)

\* the last request wrote the reset of a forced re-review
WroteReviewReset ==
    /\ ac_last.outcome = "ok"
    /\ ac_last.op = "peer_review"
    /\ TruthyList(ac_last.before.peer_reviews)

\* C33: after a forced rebuild, a roster update or a forced re-execution has
\* written an empty map for execution_status and review_status, and after a
\* forced re-review has written one for review_status, the stored progress
\* map is empty: no worker's entry of the earlier run remains.
C33_ResetEmptiesProgress ==
    /\ WroteExecutionReset =>
          /\ ac_state.execution_status = D(EmptyDict)
          /\ ac_state.review_status = D(EmptyDict)
    /\ WroteReviewReset => ac_state.review_status = D(EmptyDict)


-----------------------------------------------------------------------------
(* Properties of the stored usage totals *)

\* C31: the stored totals are running counters over the stage sequence:
\* after each stage's write the stored total token and cost values are not
\* below what was stored before the stage, and they hold the usage of every
\* call logged so far, the earlier stages' included.
C31_TotalsAreRunningCounters ==
    us_pc = "written" =>
        /\ StoredTotals(us_state).total_tokens >= us_before.total_tokens
        /\ StoredTotals(us_state).total_cost_usd >= us_before.total_cost_usd
        /\ StoredTotals(us_state).total_tokens = us_spent.total_tokens
        /\ StoredTotals(us_state).total_cost_usd = Round6(us_spent.total_cost)


-----------------------------------------------------------------------------
(* Properties of the anonymity of the inputs *)

\* the two runs give the worker at position i the same name and persona
SameReviewer(i) == an_runs.a.agents[i] = an_runs.b.agents[i]

\* in neither run does another worker bear the name of the worker at position i
NameIsOwn(i) ==
    \A j \in 1..Len(an_runs.a.agents) :
        j # i => /\ an_runs.a.agents[j].name # an_runs.a.agents[i].name
                 /\ an_runs.b.agents[j].name # an_runs.b.agents[i].name

\* the same workers review in both runs
SameReviewers ==
    ReviewerPositions(an_runs.a.agents, an_runs.a.results)
        = ReviewerPositions(an_runs.b.agents, an_runs.b.results)

\* the synthesizer's input is the same in both runs, whatever the workers of
\* the second are called
SynthesizerInputAnonymous ==
    an_pc = "synthesized" /\ SameReviewers => an_inputs.a = an_inputs.b

-----------------------------------------------------------------------------
(* Properties of the end of a stage *)

StatusIs(values) == api_state.status \in {V(v) : v \in values}

\* a stage set in motion comes to its end: 'executing' is followed by
\* 'execution_complete' or 'execution_error', 'reviewing' by 'review_complete'
\* or 'review_error'
StageComesToItsEnd ==
    /\ StatusIs({"executing"}) ~> StatusIs({"execution_complete", "execution_error"})
    /\ StatusIs({"reviewing"}) ~> StatusIs({"review_complete", "review_error"})

\* the step is the error write of an execute or of a review task
ExecutionErrorWritten ==
    \E t \in 1..Len(api_tasks) : api_tasks[t].kind = "execute" /\ api_tasks'[t].pc = "failed"
                                   /\ api_tasks[t].pc # "failed"

ReviewErrorWritten ==
    \E t \in 1..Len(api_tasks) : api_tasks[t].kind = "review" /\ api_tasks'[t].pc = "failed"
                                   /\ api_tasks[t].pc # "failed"

\* on the error outcome the stage's result field is null
ErrorLeavesResultNull ==
    [][/\ ExecutionErrorWritten => api_state'.execution_results = Null
       /\ ReviewErrorWritten => api_state'.peer_reviews = Null]_vars

\* C35: once an execute request has set status 'executing' the session
\* eventually reaches 'execution_complete' or 'execution_error', and
\* 'reviewing' is eventually followed by 'review_complete' or 'review_error';
\* on the error outcome the stage's result field is null, so that the stage
\* can be requested again without force.
C35_StageEndsAndErrorLeavesNull == StageComesToItsEnd /\ ErrorLeavesResultNull

=============================================================================
